---- MODULE Spec2Model ----
(***************************************************************************)
(* One scrape (Exporter.Collect) of the InstaClustr exporter, in its two   *)
(* collector variants:                                                     *)
(*   "A" = src/collector/cassandra.go  (one worker goroutine per cluster)  *)
(*   "B" = src/unnamed/part_001        (one worker goroutine per node,     *)
(*                                      clusters walked by Collect itself) *)
(* The upstream API is the environment: what it answers to each call of    *)
(* the scrape (per cluster id, per node id) is fixed in the initial state. *)
(***************************************************************************)
EXTENDS Integers, Sequences, FiniteSets, Bags, TLC

\* ------------------------------------------------------------------ bounds
NumClusters == 2
NumNodes == 3
MaxFaults == 1

\* ------------------------------------------------------- upstream records
ClusterIx == 1..NumClusters
NodeIx == 1..NumNodes

\* Cluster 1 owns every node the other clusters do not: each other cluster
\* has one node.  Node ids are unique across clusters.
FirstClusterNodes == NumNodes - (NumClusters - 1)

\* The datacentres document of cluster i.  Cluster 1 has one datacentre with
\* all its nodes; every other cluster has an empty datacentre followed by a
\* datacentre with its node.
Topology(i) ==
    IF i = 1
    THEN << [Nodes |-> [j \in 1..FirstClusterNodes |-> j]] >>
    ELSE << [Nodes |-> << >>], [Nodes |-> << FirstClusterNodes + i - 1 >>] >>

ClusterOf(k) == IF k <= FirstClusterNodes THEN 1 ELSE k - FirstClusterNodes + 1
NodesOfCluster(i) == {k \in NodeIx : ClusterOf(k) = i}

ClusterRecs ==
    [i \in ClusterIx |->
        [ID |-> "c" \o ToString(i), Name |-> "cluster" \o ToString(i),
         NodeCount |-> Cardinality(NodesOfCluster(i)),
         RunningNodeCount |-> Cardinality({k \in NodesOfCluster(i) : k % 2 = 1}),
         DerivedStatus |-> IF i % 2 = 1 THEN "RUNNING" ELSE "PROVISIONING"]]
ClusterRec(i) == ClusterRecs[i]

NodeRecs ==
    [k \in NodeIx |->
        [ID |-> "n" \o ToString(k), Rack |-> "rack" \o ToString(k),
         PublicIP |-> "pub" \o ToString(k), PrivateIP |-> "priv" \o ToString(k),
         Status |-> IF k % 2 = 1 THEN "RUNNING" ELSE "PROVISIONING"]]
NodeRec(k) == NodeRecs[k]

\* A value string is the sequence of its characters.  Node k reports k.
DigitChars == << "0", "1", "2", "3", "4", "5", "6", "7", "8", "9" >>
RECURSIVE Itoa(_)
Itoa(k) == IF k < 10 THEN << DigitChars[k + 1] >> ELSE Append(Itoa(k \div 10), DigitChars[(k % 10) + 1])

\* The monitoring payload of node k: one metrics element with two samples.
ValueOf(k) == Itoa(k)
Sample(name, type, vals) == [Name |-> name, Type |-> type, Values |-> vals]
PayloadsOk ==
    [k \in NodeIx |->
        << [Metrics |-> << Sample("cpuUtilization", "percentage", << ValueOf(k) >>),
                           Sample("repairs", "pendingtasks", << ValueOf(k), << "0" >> >>) >>] >>]
PayloadOk(k) == PayloadsOk[k]
PayloadsEmptyValues ==
    [k \in NodeIx |->
        << [Metrics |-> << Sample("cpuUtilization", "percentage", << ValueOf(k) >>),
                           Sample("repairs", "pendingtasks", << >>) >>] >>]
PayloadEmptyValues(k) == PayloadsEmptyValues[k]

ListKinds == {"ok", "syntax", "type"}
StatusKinds == {"ok", "nofield", "fail"}
MetricsKinds == {"ok", "emptyvalues", "fail"}

\* ------------------------------------------------------------ float values
\* A float64 is kept as the decimal it prints as: a sign, the significant
\* digits (no leading and no trailing zero; none at all for zero) and the
\* power of ten of the last digit.  The value strings of the model have at most
\* 17 significant digits and are the shortest decimal of their float64, so
\* that parsing one and printing the result gives the same decimal back.
IsDigit(ch) == \E d \in 1..10 : DigitChars[d] = ch
DigitVal(ch) == (CHOOSE d \in 1..10 : DigitChars[d] = ch) - 1

RECURSIVE StripLeadingZeros(_)
StripLeadingZeros(ds) ==
    IF ds # << >> /\ Head(ds) = 0 THEN StripLeadingZeros(Tail(ds)) ELSE ds

RECURSIVE Dec(_, _, _)
Dec(neg, ds, e) ==
    IF StripLeadingZeros(ds) = << >> THEN [neg |-> FALSE, digits |-> << >>, e |-> 0]
    ELSE IF ds[Len(ds)] = 0 THEN Dec(neg, SubSeq(ds, 1, Len(ds) - 1), e + 1)
    ELSE [neg |-> neg, digits |-> StripLeadingZeros(ds), e |-> e]

IntDigits(k) == [j \in 1..Len(Itoa(k)) |-> DigitVal(Itoa(k)[j])]
Norm(m, e) == Dec(m < 0, IntDigits(IF m < 0 THEN -m ELSE m), e)

Flt(i) == Norm(i, 0)

\* strconv.ParseFloat(s, 64) on the value strings the upstream is modelled to
\* send, which are made of digits, ".", a leading sign and characters that
\* belong to no number ("N", "/", "A"): an optional sign, digits, an optional
\* "." and digits, with at least one digit, is the number written; anything
\* else is a syntax error, with which ParseFloat returns 0.

\* Reads digits of s from position j on: where it stops, the digits read so
\* far (continuing acc) and how many digits it read.
RECURSIVE ScanDigits(_, _, _, _)
ScanDigits(s, j, acc, cnt) ==
    IF j <= Len(s) /\ IsDigit(s[j])
    THEN ScanDigits(s, j + 1, Append(acc, DigitVal(s[j])), cnt + 1)
    ELSE [j |-> j, acc |-> acc, cnt |-> cnt]

ParseFloat(s) ==
    LET signed == s # << >> /\ s[1] \in {"+", "-"}
        neg == signed /\ s[1] = "-"
        ip == ScanDigits(s, IF signed THEN 2 ELSE 1, << >>, 0)
        dot == ip.j <= Len(s) /\ s[ip.j] = "."
        fp == IF dot THEN ScanDigits(s, ip.j + 1, ip.acc, 0)
              ELSE [j |-> ip.j, acc |-> ip.acc, cnt |-> 0]
    IN  IF fp.j = Len(s) + 1 /\ ip.cnt + fp.cnt > 0
        THEN [err |-> FALSE, f |-> Dec(neg, fp.acc, -fp.cnt)]
        ELSE [err |-> TRUE, f |-> Flt(0)]

\* usTosecondsFactor = 1e-06 (src/unnamed/part_001:17)
usTosecondsExp == -6
MulUsToSeconds(f) == Dec(f.neg, f.digits, f.e + usTosecondsExp)

\* ------------------------------------------------------- metric descriptors
\* prometheus.BuildFQName(namespace, subsystem, name)
namespace == "cassandra"
BuildFQName(ns, subsystem, name) == ns \o "_" \o subsystem \o "_" \o name

\* The fully qualified names of the descriptors declared by each source file,
\* under the names of the Go variables that hold them.
Descs ==
    [v \in {"A", "B"} |->
        [clusterInfo |-> BuildFQName(namespace, "cluster", "info"),
         clusterRunning |-> BuildFQName(namespace, "cluster", "running"),
         clusterNodesCount |->
            BuildFQName(namespace, "cluster", IF v = "A" THEN "nodes_count" ELSE "nodes"),
         clusterNodesRunningCount |->
            BuildFQName(namespace, "cluster",
                        IF v = "A" THEN "nodes_running_count" ELSE "nodes_running"),
         nodeInfo |-> BuildFQName(namespace, "node", "info"),
         nodeRunning |-> BuildFQName(namespace, "node", "running"),
         nodeCPUUtilizationPercentage |->
            BuildFQName(namespace, "node", "cpu_utilization_percentage"),
         nodeDiskUtilizationPercentage |->
            BuildFQName(namespace, "node", "disk_utilization_percentage"),
         nodeCassandraReadsPerSecond |-> BuildFQName(namespace, "node", "reads_per_second"),
         nodeCassandraWritesPerSecond |-> BuildFQName(namespace, "node", "writes_per_second"),
         nodeCassandraCompactions |-> BuildFQName(namespace, "node", "compactions"),
         nodeCassandraRepairsPending |-> BuildFQName(namespace, "node", "repairs_pending"),
         nodeCassandraRepairsActive |-> BuildFQName(namespace, "node", "repairs_active"),
         nodeClientRequestReadLatency |->
            BuildFQName(namespace, "node", "client_request_read_latency"),
         nodeClientRequestWriteLatency |->
            BuildFQName(namespace, "node", "client_request_write_latency"),
         nodeClientRequestReadPercentile |->
            BuildFQName(namespace, "node",
                        IF v = "A" THEN "client_request_read_percentile"
                        ELSE "client_request_read_percentile95"),
         nodeClientRequestWritePercentile |->
            BuildFQName(namespace, "node",
                        IF v = "A" THEN "client_request_write_percentile"
                        ELSE "client_request_write_percentile95")]]

\* ------------------------------------------------------------ observations
\* prometheus.MustNewConstMetric(desc, valueType, value, labelValues...)
Obs(desc, vt, value, labels) ==
    [desc |-> desc, valueType |-> vt, value |-> value, labels |-> labels]

ClusterLabels(c) == [clusterId |-> c.ID, clusterName |-> c.Name]
ClusterIdLabel(c) == [clusterId |-> c.ID]
NodeLabels(c, n) ==
    [clusterId |-> c.ID, clusterName |-> c.Name, nodeId |-> n.ID,
     nodePublicIp |-> n.PublicIP, nodePrivateIp |-> n.PrivateIP, rack |-> n.Rack]
NodeIdLabel(n) == [nodeId |-> n.ID]

\* Label set of the cluster-health and of the node metrics, per variant.
HealthLabels(v, c) == IF v = "A" THEN ClusterLabels(c) ELSE ClusterIdLabel(c)
MetricLabels(v, c, n) == IF v = "A" THEN NodeLabels(c, n) ELSE NodeIdLabel(n)

clusterInfoCollector(c) ==
    << Obs(Descs["B"].clusterInfo, "counter", Flt(1), ClusterLabels(c)) >>

clusterHealthCollectorNotEmpty(v, c) ==
    << Obs(Descs[v].clusterRunning, "gauge",
           IF c.DerivedStatus # "" THEN Flt(1) ELSE Flt(0), HealthLabels(v, c)),
       Obs(Descs[v].clusterNodesCount, "gauge", Flt(c.NodeCount), HealthLabels(v, c)),
       Obs(Descs[v].clusterNodesRunningCount, "gauge", Flt(c.RunningNodeCount),
           HealthLabels(v, c)) >>
clusterHealthCollector(v, c) ==
    << Obs(Descs[v].clusterRunning, "gauge",
           IF c.DerivedStatus = "RUNNING" THEN Flt(1) ELSE Flt(0), HealthLabels(v, c)),
       Obs(Descs[v].clusterNodesCount, "gauge", Flt(c.NodeCount), HealthLabels(v, c)),
       Obs(Descs[v].clusterNodesRunningCount, "gauge", Flt(c.RunningNodeCount),
           HealthLabels(v, c)) >>

nodeInfoCollector(c, n) ==
    << Obs(Descs["B"].nodeInfo, "counter", Flt(1), NodeLabels(c, n)) >>

nodeHealthCollectorAnyCase(v, c, n) ==
    << Obs(Descs[v].nodeRunning, "gauge",
           IF n.Status \in {"RUNNING", "running"} THEN Flt(1) ELSE Flt(0),
           MetricLabels(v, c, n)) >>
nodeHealthCollector(v, c, n) ==
    << Obs(Descs[v].nodeRunning, "gauge",
           IF n.Status = "RUNNING" THEN Flt(1) ELSE Flt(0), MetricLabels(v, c, n)) >>

\* The switch of nodeMetricsCollector for one sample whose first value has
\* been parsed to `value`: the observations sent and the warnings logged.
LatencyValueSeconds(v, value) == MulUsToSeconds(value)
LatencyValue(v, value) == IF v = "A" THEN value ELSE MulUsToSeconds(value)

MapSample(v, c, n, m, value) ==
    LET L == MetricLabels(v, c, n)
        D == Descs[v]
        one(desc, val) == [out |-> << Obs(desc, "gauge", val, L) >>, warn |-> << >>]
        unknownType == [out |-> << >>, warn |-> << <<"unknown type", m.Name, m.Type>> >>]
    IN  CASE m.Name = "cpuUtilization" -> one(D.nodeCPUUtilizationPercentage, value)
          [] m.Name = "diskUtilization" -> one(D.nodeDiskUtilizationPercentage, value)
          [] m.Name = "cassandraReads" -> one(D.nodeCassandraReadsPerSecond, value)
          [] m.Name = "cassandraWrites" -> one(D.nodeCassandraWritesPerSecond, value)
          [] m.Name = "compactions" -> one(D.nodeCassandraCompactions, value)
          [] m.Name = "repairs" ->
                IF m.Type = "pendingtasks" THEN one(D.nodeCassandraRepairsPending, value)
                ELSE IF m.Type = "activetasks" THEN one(D.nodeCassandraRepairsActive, value)
                ELSE unknownType
          [] m.Name = "clientRequestRead" ->
                IF m.Type = "latency_per_operation"
                THEN one(D.nodeClientRequestReadLatency, LatencyValue(v, value))
                ELSE IF m.Type = "95thPercentile"
                THEN one(D.nodeClientRequestReadPercentile, LatencyValue(v, value))
                ELSE unknownType
          [] m.Name = "clientRequestWrite" ->
                IF m.Type = "latency_per_operation"
                THEN one(D.nodeClientRequestWriteLatency, LatencyValue(v, value))
                ELSE IF m.Type = "95thPercentile"
                THEN one(D.nodeClientRequestWritePercentile, LatencyValue(v, value))
                ELSE unknownType
          [] OTHER -> [out |-> << >>, warn |-> << >>]

\* All samples of a []metrics value in order, payload after payload.
RECURSIVE FlattenMetrics(_)
FlattenMetrics(ms) ==
    IF ms = << >> THEN << >> ELSE Head(ms).Metrics \o FlattenMetrics(Tail(ms))

\* value, err := strconv.ParseFloat(...); if err != nil { log; value = 0 }
RecoveredValueSentinel(p) == IF p.err THEN Norm(-1, 0) ELSE p.f
RecoveredValue(p) == IF p.err THEN Flt(0) ELSE p.f

\* nodeMetricsCollector over the samples: m.Values[0] is indexed before the
\* switch, so a sample without values panics (index out of range) after the
\* observations of the samples before it have been sent.
LastValue(m) == m.Values[Len(m.Values)]
FirstValue(m) == m.Values[1]

RECURSIVE CollectSamples(_, _, _, _)
CollectSamples(v, c, n, samples) ==
    IF samples = << >> THEN [panic |-> FALSE, out |-> << >>, log |-> << >>]
    ELSE LET m == Head(samples)
         IN  IF Len(m.Values) = 0
             THEN [panic |-> TRUE, out |-> << >>, log |-> << >>]
             ELSE LET p == ParseFloat(FirstValue(m))
                      r == MapSample(v, c, n, m, RecoveredValue(p))
                      rest == CollectSamples(v, c, n, Tail(samples))
                      perr == IF p.err THEN << <<"parse error", m.Name, FirstValue(m)>> >>
                              ELSE << >>
                  IN  [panic |-> rest.panic,
                       out |-> r.out \o rest.out,
                       log |-> perr \o r.warn \o rest.log]

nodeMetricsCollector(v, c, n, ms) == CollectSamples(v, c, n, FlattenMetrics(ms))

\* -------------------------------------------------------------------- state
VARIABLES
    variant,      \* which collector source file runs: "A" or "B"
    pc,           \* position of the Collect call itself
    clusters,     \* Collect's decoded cluster list (indices of ClusterRec)
    i,            \* index of the `for _, c := range clusters` loop
    mDcs,         \* variant B: datacentres still to be ranged over
    dcs,          \* the datacentres buffer shared by the whole scrape
    ms,           \* the []metrics buffer shared by the whole scrape
    workers,      \* the goroutines spawned so far
    wg,           \* sync.WaitGroup counter
    sem,          \* variant B: sync.Mutex, TRUE when held
    sink,         \* bag of the observations received on ch
    sent,         \* number of `ch <- metric` statements executed
    listResp, statusResp, metricsResp,  \* what the upstream answers, per id
    statusCalls, metricCalls,           \* upstream calls issued, per id
    crashed,      \* the process died of a runtime panic
    mapper,       \* one call of a collector function on its own: input and result
    overlap,      \* two Collect invocations overlapping on one Exporter
    client,       \* the API clients and one call of theirs after another
    server        \* one common.Server: its handlers, its shutdown, its probes

\* What the scrape of Spec leaves alone.
aux == << mapper, overlap, client, server >>
MapperIdle == [pc |-> "idle"]
OverlapIdle == [pc |-> "idle"]
ClientIdle == [pc |-> "idle"]
ServerIdle == [pc |-> "idle"]

vars == << aux, variant, pc, clusters, i, mDcs, dcs, ms, workers, wg, sem,
           sink, sent, listResp, statusResp, metricsResp, statusCalls, metricCalls,
           crashed >>

RECURSIVE BagOfSeq(_)
BagOfSeq(q) == IF q = << >> THEN EmptyBag ELSE SetToBag({Head(q)}) (+) BagOfSeq(Tail(q))

\* ch <- metric, for each observation of q in turn: the statement returns
\* once the sink has taken the observation.
SendNonBlocking(q) == sink' = sink (+) BagOfSeq(SubSeq(q, 1, 1)) /\ sent' = sent + Len(q)
Send(q) == sink' = sink (+) BagOfSeq(q) /\ sent' = sent + Len(q)

\* Number of upstream answers that are not the healthy one.
Faults(l, st, mt) ==
    (IF l # "ok" THEN 1 ELSE 0)
    + Cardinality({c \in ClusterIx : st[c] # "ok"})
    + Cardinality({n \in NodeIx : mt[n] # "ok"})

NewDatacentres == [Dcs |-> << >>]

Init ==
    /\ variant \in {"A", "B"}
    /\ pc = "list"
    /\ clusters = << >>
    /\ i = 1
    /\ mDcs = << >>
    /\ dcs = NewDatacentres
    /\ ms = << >>
    /\ workers = << >>
    /\ wg = 0
    /\ sem = FALSE
    /\ sink = EmptyBag
    /\ sent = 0
    /\ listResp \in ListKinds
    /\ statusResp \in [ClusterIx -> StatusKinds]
    /\ metricsResp \in [NodeIx -> MetricsKinds]
    /\ Faults(listResp, statusResp, metricsResp) <= MaxFaults
    /\ listResp # "ok" => Faults(listResp, statusResp, metricsResp) = 1
    /\ statusCalls = [c \in ClusterIx |-> 0]
    /\ metricCalls = [n \in NodeIx |-> 0]
    /\ crashed = FALSE
    /\ mapper = MapperIdle
    /\ overlap = OverlapIdle
    /\ client = ClientIdle
    /\ server = ServerIdle

\* ------------------------------------------------------------------ decoding
\* json.Unmarshal(GetClusters(), &clusters): nil bytes or malformed JSON give
\* an error and no element; an element of the wrong type gives an error after
\* the well-typed elements have been stored.
AllClusters == [j \in 1..NumClusters |-> j]
DecodeClusters(kind) ==
    CASE kind = "ok" -> [err |-> FALSE, clusters |-> AllClusters]
      [] kind = "type" -> [err |-> TRUE, clusters |-> SubSeq(AllClusters, 1, 1)]
      [] OTHER -> [err |-> TRUE, clusters |-> << >>]

\* if err := json.Unmarshal(...); err != nil { log; return }
ListFailedIgnored(r) == FALSE
ListFailed(r) == r.err

\* json.Unmarshal(GetClusterStatus(c.ID), &dcs) into the shared *datacentres:
\* a document with dataCentres replaces Dcs; a document without that field
\* (the 404 body {status,message,link}) leaves Dcs as it was; nil bytes or
\* malformed JSON are an error and leave the buffer alone.
DecodeStatus(kind, c, buf) ==
    CASE kind = "ok" -> [err |-> FALSE, dcs |-> [Dcs |-> Topology(c)]]
      [] kind = "nofield" -> [err |-> FALSE, dcs |-> buf]
      [] OTHER -> [err |-> TRUE, dcs |-> buf]

\* json.Unmarshal(GetNodeMetric(n.ID, query), &ms) into the shared []metrics.
DecodeMetrics(kind, n, buf) ==
    CASE kind = "ok" -> [err |-> FALSE, ms |-> PayloadOk(n)]
      [] kind = "emptyvalues" -> [err |-> FALSE, ms |-> PayloadEmptyValues(n)]
      [] OTHER -> [err |-> TRUE, ms |-> buf]

\* for _, dc := range dcs.Dcs { for _, n := range dc.Nodes {...} }
RECURSIVE FlattenDcs(_)
FlattenDcs(d) == IF d = << >> THEN << >> ELSE Head(d).Nodes \o FlattenDcs(Tail(d))

Worker(c, nodes, at) == [pc |-> at, c |-> c, nodes |-> nodes]
SetWorker(w, r) == workers' = [workers EXCEPT ![w] = r]

\* ------------------------------------------------- Collect, both variants
\* json.Unmarshal(e.provisioningClient.GetClusters(), &clusters)
FetchClusters ==
    /\ ~crashed /\ pc = "list"
    /\ LET r == DecodeClusters(listResp)
       IN  /\ clusters' = r.clusters
           /\ pc' = IF ListFailed(r) THEN "done" ELSE "loop"
    /\ UNCHANGED << aux, variant, i, mDcs, dcs, ms, workers, wg, sem, sink, sent,
                    listResp, statusResp, metricsResp, statusCalls, metricCalls, crashed >>

\* wg.Wait() returns once the counter is zero
WaitReturnsAtOnce == TRUE
WaitReturns == wg = 0

\* ---------------------------------------- variant A: cassandra.go, Collect
\* for _, c := range clusters { wg.Add(1); go func(c cluster) {...}(c) }
\* The loop shares nothing with the goroutines it starts but the WaitGroup,
\* which it increments before each go statement; it is taken as one step.
ASpawn ==
    /\ ~crashed /\ variant = "A" /\ pc = "loop"
    /\ wg' = wg + Len(clusters)
    /\ workers' = workers \o [j \in 1..Len(clusters) |-> Worker(clusters[j], << >>, "status")]
    /\ i' = Len(clusters) + 1
    /\ pc' = "wait"
    /\ UNCHANGED << aux, variant, clusters, mDcs, dcs, ms, sem, sink, sent, listResp,
                    statusResp, metricsResp, statusCalls, metricCalls, crashed >>

\* wg.Wait() as the last statement of Collect
AWait ==
    /\ ~crashed /\ variant = "A" /\ pc = "wait"
    /\ WaitReturns
    /\ pc' = "done"
    /\ UNCHANGED << aux, variant, clusters, i, mDcs, dcs, ms, workers, wg, sem,
                    sink, sent, listResp, statusResp, metricsResp, statusCalls,
                    metricCalls, crashed >>

\* The goroutine's position after it has finished with one node (or before
\* the first): with nodes left, nodeHealthCollector(c, n, ch) for the next one
\* and on to its metrics call; with none left the goroutine ends (deferred
\* wg.Done).  Sends are folded into the step that precedes them.
AEnterNode(w, nodes) ==
    IF nodes = << >>
    THEN /\ SetWorker(w, [workers[w] EXCEPT !.pc = "done", !.nodes = nodes])
         /\ wg' = wg - 1
    ELSE /\ SetWorker(w, [workers[w] EXCEPT !.pc = "metrics", !.nodes = nodes])
         /\ wg' = wg

AEnterNodeObs(w, nodes) ==
    IF nodes = << >> THEN << >>
    ELSE nodeHealthCollector(variant, ClusterRec(workers[w].c), NodeRec(Head(nodes)))

\* clusterHealthCollector(c, ch), then
\* json.Unmarshal(e.provisioningClient.GetClusterStatus(c.ID), &dcs);
\* on error the goroutine returns (deferred wg.Done)
AStatus(w) ==
    /\ ~crashed /\ variant = "A" /\ workers[w].pc = "status"
    /\ Send(clusterHealthCollector(variant, ClusterRec(workers[w].c)))
    /\ LET r == DecodeStatus(statusResp[workers[w].c], workers[w].c, dcs)
       IN  /\ dcs' = r.dcs
           /\ IF r.err
              THEN /\ SetWorker(w, [workers[w] EXCEPT !.pc = "done"])
                   /\ wg' = wg - 1
              ELSE /\ SetWorker(w, [workers[w] EXCEPT !.pc = "range"])
                   /\ wg' = wg
    /\ statusCalls' = [statusCalls EXCEPT ![workers[w].c] = @ + 1]
    /\ UNCHANGED << aux, variant, pc, clusters, i, mDcs, ms, sem,
                    listResp, statusResp, metricsResp, metricCalls, crashed >>

\* for _, dc := range dcs.Dcs { for _, n := range dc.Nodes {: the goroutine
\* reads the shared buffer as it is now.
ARange(w) ==
    /\ ~crashed /\ variant = "A" /\ workers[w].pc = "range"
    /\ AEnterNode(w, FlattenDcs(dcs.Dcs))
    /\ Send(AEnterNodeObs(w, FlattenDcs(dcs.Dcs)))
    /\ UNCHANGED << aux, variant, pc, clusters, i, mDcs, dcs, ms, sem, listResp,
                    statusResp, metricsResp, statusCalls, metricCalls, crashed >>

\* json.Unmarshal(e.monitoringClient.GetNodeMetric(n.ID, ...), &ms);
\* on error the whole cluster goroutine returns
AMetrics(w) ==
    /\ ~crashed /\ variant = "A" /\ workers[w].pc = "metrics"
    /\ LET n == Head(workers[w].nodes)
           r == DecodeMetrics(metricsResp[n], n, ms)
       IN  /\ ms' = r.ms
           /\ metricCalls' = [metricCalls EXCEPT ![n] = @ + 1]
           /\ IF r.err
              THEN /\ SetWorker(w, [workers[w] EXCEPT !.pc = "done"])
                   /\ wg' = wg - 1
              ELSE /\ SetWorker(w, [workers[w] EXCEPT !.pc = "collect"])
                   /\ wg' = wg
    /\ UNCHANGED << aux, variant, pc, clusters, i, mDcs, dcs, sem, sink, sent,
                    listResp, statusResp, metricsResp, statusCalls, crashed >>

\* nodeMetricsCollector(c, n, ms, ch) on the shared ms as it is now, then the
\* next iteration of the node range
ACollect(w) ==
    /\ ~crashed /\ variant = "A" /\ workers[w].pc = "collect"
    /\ LET r == nodeMetricsCollector(variant, ClusterRec(workers[w].c),
                                     NodeRec(Head(workers[w].nodes)), ms)
       IN  /\ crashed' = r.panic
           /\ IF r.panic
              THEN /\ Send(r.out)
                   /\ UNCHANGED << workers, wg >>
              ELSE /\ Send(r.out \o AEnterNodeObs(w, Tail(workers[w].nodes)))
                   /\ AEnterNode(w, Tail(workers[w].nodes))
    /\ UNCHANGED << aux, variant, pc, clusters, i, mDcs, dcs, ms, sem,
                    listResp, statusResp, metricsResp, statusCalls, metricCalls >>

\* ------------------------------------------ variant B: part_001, Collect
\* head of `for _, c := range clusters`: clusterInfoCollector and
\* clusterHealthCollector run in Collect itself; past the last cluster
\* Collect returns.
BCluster ==
    /\ ~crashed /\ variant = "B" /\ pc = "loop"
    /\ IF i <= Len(clusters)
       THEN /\ Send(clusterInfoCollector(ClusterRec(clusters[i]))
                    \o clusterHealthCollector(variant, ClusterRec(clusters[i])))
            /\ pc' = "status"
       ELSE /\ pc' = "done"
            /\ UNCHANGED << sink, sent >>
    /\ UNCHANGED << aux, variant, clusters, i, mDcs, dcs, ms, workers, wg, sem,
                    listResp, statusResp, metricsResp, statusCalls, metricCalls,
                    crashed >>

\* json.Unmarshal(e.provisioningClient.GetClusterStatus(c.ID), &dcs); on error
\* Collect returns; otherwise `range dcs.Dcs` starts on the decoded buffer.
BStatus ==
    /\ ~crashed /\ variant = "B" /\ pc = "status"
    /\ LET r == DecodeStatus(statusResp[clusters[i]], clusters[i], dcs)
       IN  /\ dcs' = r.dcs
           /\ IF r.err
              THEN /\ pc' = "done"
                   /\ UNCHANGED mDcs
              ELSE /\ pc' = "dcloop"
                   /\ mDcs' = r.dcs.Dcs
    /\ statusCalls' = [statusCalls EXCEPT ![clusters[i]] = @ + 1]
    /\ UNCHANGED << aux, variant, clusters, i, ms, workers, wg, sem, sink, sent,
                    listResp, statusResp, metricsResp, metricCalls, crashed >>

\* head of `for _, dc := range dcs.Dcs`: past the last datacentre, on to the
\* next cluster; otherwise
\* for _, n := range dc.Nodes { wg.Add(1); go func(c, n, ch) {...}(c, n, ch) }
\* taken as one step, as in variant A.
BSpawn ==
    /\ ~crashed /\ variant = "B" /\ pc = "dcloop"
    /\ IF mDcs = << >>
       THEN /\ i' = i + 1
            /\ pc' = "loop"
            /\ UNCHANGED << mDcs, wg, workers >>
       ELSE /\ wg' = wg + Len(Head(mDcs).Nodes)
            /\ workers' = workers \o [j \in 1..Len(Head(mDcs).Nodes) |->
                                        Worker(clusters[i], << Head(mDcs).Nodes[j] >>, "health")]
            /\ mDcs' = Tail(mDcs)
            /\ pc' = "wait"
            /\ UNCHANGED i
    /\ UNCHANGED << aux, variant, clusters, dcs, ms, sem, sink, sent, listResp,
                    statusResp, metricsResp, statusCalls, metricCalls, crashed >>

\* wg.Wait() at the end of each datacentre's iteration
BWait ==
    /\ ~crashed /\ variant = "B" /\ pc = "wait"
    /\ WaitReturns
    /\ pc' = "dcloop"
    /\ UNCHANGED << aux, variant, clusters, i, mDcs, dcs, ms, workers, wg, sem,
                    sink, sent, listResp, statusResp, metricsResp, statusCalls,
                    metricCalls, crashed >>

\* nodeInfoCollector(c, n, ch); nodeHealthCollector(c, n, ch)
BHealth(w) ==
    /\ ~crashed /\ variant = "B" /\ workers[w].pc = "health"
    /\ Send(nodeInfoCollector(ClusterRec(workers[w].c), NodeRec(Head(workers[w].nodes)))
            \o nodeHealthCollector(variant, ClusterRec(workers[w].c),
                                   NodeRec(Head(workers[w].nodes))))
    /\ SetWorker(w, [workers[w] EXCEPT !.pc = "lock"])
    /\ UNCHANGED << aux, variant, pc, clusters, i, mDcs, dcs, ms, wg, sem,
                    listResp, statusResp, metricsResp, statusCalls, metricCalls,
                    crashed >>

\* sem.Lock()
BLock(w) ==
    /\ ~crashed /\ variant = "B" /\ workers[w].pc = "lock"
    /\ ~sem
    /\ sem' = TRUE
    /\ SetWorker(w, [workers[w] EXCEPT !.pc = "metrics"])
    /\ UNCHANGED << aux, variant, pc, clusters, i, mDcs, dcs, ms, wg, sink, sent,
                    listResp, statusResp, metricsResp, statusCalls, metricCalls,
                    crashed >>

\* json.Unmarshal(e.monitoringClient.GetNodeMetric(n.ID, ...), &ms) under the
\* lock: on error the goroutine returns (deferred wg.Done) with sem still
\* held; otherwise sem.Unlock().
BMetrics(w) ==
    /\ ~crashed /\ variant = "B" /\ workers[w].pc = "metrics"
    /\ LET n == Head(workers[w].nodes)
           r == DecodeMetrics(metricsResp[n], n, ms)
       IN  /\ ms' = r.ms
           /\ metricCalls' = [metricCalls EXCEPT ![n] = @ + 1]
           /\ IF r.err
              THEN /\ SetWorker(w, [workers[w] EXCEPT !.pc = "done"])
                   /\ wg' = wg - 1
                   /\ UNCHANGED sem
              ELSE /\ SetWorker(w, [workers[w] EXCEPT !.pc = "collect"])
                   /\ sem' = FALSE
                   /\ UNCHANGED wg
    /\ UNCHANGED << aux, variant, pc, clusters, i, mDcs, dcs, sink, sent, listResp,
                    statusResp, metricsResp, statusCalls, crashed >>

\* nodeMetricsCollector(c, n, ms, ch) outside the lock, on the shared ms as it
\* is now; then the goroutine ends (deferred wg.Done)
BCollect(w) ==
    /\ ~crashed /\ variant = "B" /\ workers[w].pc = "collect"
    /\ LET r == nodeMetricsCollector(variant, ClusterRec(workers[w].c),
                                     NodeRec(Head(workers[w].nodes)), ms)
       IN  /\ Send(r.out)
           /\ crashed' = r.panic
           /\ IF r.panic THEN UNCHANGED << workers, wg >>
              ELSE /\ SetWorker(w, [workers[w] EXCEPT !.pc = "done"])
                   /\ wg' = wg - 1
    /\ UNCHANGED << aux, variant, pc, clusters, i, mDcs, dcs, ms, sem, listResp,
                    statusResp, metricsResp, statusCalls, metricCalls >>

\* ------------------------------------------------------------ specification
Next ==
    \/ FetchClusters
    \/ ASpawn
    \/ AWait
    \/ \E w \in DOMAIN workers : AStatus(w)
    \/ \E w \in DOMAIN workers : ARange(w)
    \/ \E w \in DOMAIN workers : AMetrics(w)
    \/ \E w \in DOMAIN workers : ACollect(w)
    \/ BCluster
    \/ BStatus
    \/ BSpawn
    \/ BWait
    \/ \E w \in DOMAIN workers : BHealth(w)
    \/ \E w \in DOMAIN workers : BLock(w)
    \/ \E w \in DOMAIN workers : BMetrics(w)
    \/ \E w \in DOMAIN workers : BCollect(w)

Spec == Init /\ [][Next]_vars

\* Every goroutine that can take a step eventually does (Go's scheduler),
\* every upstream call returns and the sink keeps receiving.
FairSpec == Spec /\ WF_vars(Next)

TypeOK ==
    /\ variant \in {"A", "B"}
    /\ pc \in {"list", "loop", "status", "dcloop", "wait", "done"}
    /\ wg \in 0..(NumClusters + NumNodes)
    /\ sem \in BOOLEAN
    /\ sent \in Nat
    /\ crashed \in BOOLEAN

\* ------------------------------------------- the collector functions alone
\* Inputs of one call: a Cluster record with any derivedStatus, a Node record
\* with any nodeStatus, or a []metrics value made of a sample under test
\* between two sequences of other samples.
MaxCtx == 1
StatusStrings == {"RUNNING", "", "PROVISIONING", "running", "RUNNING "}
MetricNames ==
    {"cpuUtilization", "diskUtilization", "cassandraReads", "cassandraWrites",
     "compactions", "repairs", "clientRequestRead", "clientRequestWrite",
     "nodeStatus", ""}
MetricTypes ==
    {"percentage", "pendingtasks", "activetasks", "latency_per_operation",
     "95thPercentile", "count", ""}
ValueSeqs ==
    {<< >>, << << "3" >> >>, << << "N", "/", "A" >> >>, << << >> >>,
     << << "2", ".", "5" >>, << "7" >> >>, << << "3" >>, << "N", "/", "A" >> >>}
Samples ==
    {Sample(name, type, vals) : name \in MetricNames, type \in MetricTypes, vals \in ValueSeqs}

\* The other samples of the payload: a mapped one and a skipped one.
CtxSamples ==
    {Sample("diskUtilization", "percentage", << << "7" >> >>),
     Sample("repairs", "count", << << "1" >> >>)}
RECURSIVE SeqsUpTo(_, _)
SeqsUpTo(S, len) ==
    IF len = 0 THEN {<< >>}
    ELSE SeqsUpTo(S, len - 1)
         \cup {Append(q, x) : q \in {r \in SeqsUpTo(S, len - 1) : Len(r) = len - 1}, x \in S}
CtxSeqs == SeqsUpTo(CtxSamples, MaxCtx)

ClusterInputs == {[ClusterRec(1) EXCEPT !.DerivedStatus = st] : st \in StatusStrings}
NodeInputs == {[NodeRec(1) EXCEPT !.Status = st] : st \in StatusStrings}

MapperCalls ==
    {[pc |-> "call", fn |-> "clusterHealthCollector", c |-> c] : c \in ClusterInputs}
    \cup {[pc |-> "call", fn |-> "nodeHealthCollector", c |-> ClusterRec(1), n |-> n] :
            n \in NodeInputs}
    \cup {[pc |-> "call", fn |-> "nodeMetricsCollector", c |-> ClusterRec(1),
           n |-> NodeRec(1), pre |-> pre, m |-> m, post |-> post] :
            pre \in CtxSeqs, m \in Samples, post \in CtxSeqs}

\* The scrape's own state plays no part here: it stays as Collect finds it.
CollectNotStarted ==
    /\ pc = "list"
    /\ clusters = << >>
    /\ i = 1
    /\ mDcs = << >>
    /\ dcs = NewDatacentres
    /\ ms = << >>
    /\ workers = << >>
    /\ wg = 0
    /\ sem = FALSE
    /\ sink = EmptyBag
    /\ sent = 0
    /\ listResp = "ok"
    /\ statusResp = [c \in ClusterIx |-> "ok"]
    /\ metricsResp = [n \in NodeIx |-> "ok"]
    /\ statusCalls = [c \in ClusterIx |-> 0]
    /\ metricCalls = [n \in NodeIx |-> 0]
    /\ crashed = FALSE

collectVars ==
    << variant, pc, clusters, i, mDcs, dcs, ms, workers, wg, sem, sink, sent,
       listResp, statusResp, metricsResp, statusCalls, metricCalls, crashed >>

MapperInit ==
    /\ variant \in {"A", "B"}
    /\ CollectNotStarted
    /\ mapper \in MapperCalls
    /\ overlap = OverlapIdle
    /\ client = ClientIdle
    /\ server = ServerIdle

\* clusterHealthCollector(c, ch)
CallClusterHealthCollector ==
    /\ mapper.pc = "call" /\ mapper.fn = "clusterHealthCollector"
    /\ mapper' = [pc |-> "returned", fn |-> mapper.fn, c |-> mapper.c,
                  out |-> clusterHealthCollector(variant, mapper.c)]
    /\ UNCHANGED << collectVars, overlap, client, server >>

\* nodeHealthCollector(c, n, ch)
CallNodeHealthCollector ==
    /\ mapper.pc = "call" /\ mapper.fn = "nodeHealthCollector"
    /\ mapper' = [pc |-> "returned", fn |-> mapper.fn, c |-> mapper.c, n |-> mapper.n,
                  out |-> nodeHealthCollector(variant, mapper.c, mapper.n)]
    /\ UNCHANGED << collectVars, overlap, client, server >>

\* nodeMetricsCollector(c, n, ms, ch) on a one-element []metrics whose payload
\* is pre, the sample under test, post; a panic ends the call.
CallNodeMetricsCollector ==
    /\ mapper.pc = "call" /\ mapper.fn = "nodeMetricsCollector"
    /\ LET r == nodeMetricsCollector(variant, mapper.c, mapper.n,
                    << [Metrics |-> mapper.pre \o << mapper.m >> \o mapper.post] >>)
       IN  mapper' = [pc |-> IF r.panic THEN "panicked" ELSE "returned",
                      fn |-> mapper.fn, c |-> mapper.c, n |-> mapper.n,
                      pre |-> mapper.pre, m |-> mapper.m, post |-> mapper.post,
                      out |-> r.out, log |-> r.log]
    /\ UNCHANGED << collectVars, overlap, client, server >>

MapperNext ==
    \/ CallClusterHealthCollector
    \/ CallNodeHealthCollector
    \/ CallNodeMetricsCollector

MapperSpec == MapperInit /\ [][MapperNext]_vars


\* ============================================ overlapping Collect invocations
\* Several Collect calls on one Exporter, each with its own channel, against an
\* upstream of one cluster with one node whose answers change from call to
\* call.  Locals live in heap cells; a frame holds the addresses of its own.
MaxScrapes == 2
Scrapes == 1..MaxScrapes
OverlapStatuses == {"RUNNING", "PROVISIONING"}
OverlapValues == {1, 2}

\* return &Exporter{provisioningClient: ..., monitoringClient: ...}
NewExporter ==
    [provisioningClient |-> "ProvisioningClient", monitoringClient |-> "MonitoringClient"]

\* var provisioningClient, monitoringClient (never assigned), allNodeMetricsQuery
\* and the descriptors.
allNodeMetricsQuery ==
    << "n::cpuUtilization", "n::diskUtilization", "n::cassandraReads",
       "n::cassandraWrites", "n::compactions", "n::repairs", "n::clientRequestRead",
       "n::clientRequestWrite" >>
PackageVars(v) ==
    [provisioningClient |-> "nil", monitoringClient |-> "nil",
     allNodeMetricsQuery |-> allNodeMetricsQuery, descs |-> Descs[v]]

\* clusters := []cluster{}; dcs := new(datacentres); ms := []metrics{};
\* wg := new(sync.WaitGroup); and, in part_001, sem := &sync.Mutex{}
NoLocals == [clusters |-> 0, dcs |-> 0, ms |-> 0, wg |-> 0, sem |-> 0]
NumLocals(v) == IF v = "A" THEN 4 ELSE 5
NewLocalsShared(v, next) ==
    [clusters |-> 1, dcs |-> 2, ms |-> 3, wg |-> 4, sem |-> IF v = "A" THEN 0 ELSE 5]
NewLocals(v, next) ==
    [clusters |-> next, dcs |-> next + 1, ms |-> next + 2, wg |-> next + 3,
     sem |-> IF v = "A" THEN 0 ELSE next + 4]
Cells(L) == {L.clusters, L.dcs, L.ms, L.wg, L.sem} \ {0}
InitCells(h, L) ==
    [a \in (DOMAIN h) \cup Cells(L) |->
        IF a = L.clusters THEN << >>
        ELSE IF a = L.dcs THEN NewDatacentres
        ELSE IF a = L.ms THEN << >>
        ELSE IF a = L.wg THEN 0
        ELSE IF a = L.sem THEN FALSE
        ELSE h[a]]

\* What the upstream answers to one call.
OverlapCluster == ClusterRec(1)
OverlapNode(st) == [NodeRec(1) EXCEPT !.Status = st]
OverlapPayload(x) ==
    << [Metrics |-> << Sample("cpuUtilization", "percentage", << ValueOf(x) >>) >>] >>

\* The upstream of the tests: one RUNNING cluster with one RUNNING node and a
\* payload with one sample for each of the eleven (name, type) pairs.
MockCluster ==
    [ID |-> "cluster-uuid-1", Name |-> "MOCKED_CLUSTER_01", NodeCount |-> 1,
     RunningNodeCount |-> 1, DerivedStatus |-> "RUNNING"]
MockNode ==
    [ID |-> "node-uuid-1", Rack |-> "MOCKED_RACK_01", PublicIP |-> "a.b.c.d",
     PrivateIP |-> "e.f.g.h", Status |-> "RUNNING"]
MockSamples ==
    <<
       Sample("clientRequestRead", "latency_per_operation",
              << << "1", "4", "6", "2", ".", "5", "6", "6", "6", "6", "6", "6", "6", "6", "6", "6", "6", "4" >> >>),
       Sample("clientRequestRead", "95thPercentile",
              << << "1", "8", "6", "6", ".", "1", "6", "4", "5", "9", "9", "9", "9", "9", "9", "9", "9", "8" >> >>),
       Sample("cpuUtilization", "percentage",
              << << "2", ".", "5", "8", "8", "4", "3", "8", "3" >> >>),
       Sample("repairs", "activetasks",
              << << "0", ".", "0" >> >>),
       Sample("repairs", "pendingtasks",
              << << "0", ".", "0" >> >>),
       Sample("clientRequestWrite", "latency_per_operation",
              << << "1", "2", "9", "3", ".", "5", "3", "3", "3", "3", "3", "3", "3", "3", "3", "3", "3", "5" >> >>),
       Sample("clientRequestWrite", "95thPercentile",
              << << "1", "6", "6", "9", ".", "6", "2", "5", "3" >> >>),
       Sample("diskUtilization", "percentage",
              << << "7", ".", "6", "1", "9", "7", "3", "5", "7" >> >>),
       Sample("cassandraReads", "count",
              << << "1", ".", "2", "5" >> >>),
       Sample("cassandraWrites", "count",
              << << "1", ".", "2", "5" >> >>),
       Sample("compactions", "pendingtasks",
              << << "0", ".", "0" >> >>)
    >>
MockPayload == << [Metrics |-> MockSamples] >>

\* The answers the upstream may give to one call.
ClusterAnswers(up) == IF up = "mock" THEN {MockCluster} ELSE {OverlapCluster}
NodeAnswers(up) ==
    IF up = "mock" THEN {MockNode} ELSE {OverlapNode(st) : st \in OverlapStatuses}
PayloadAnswers(up) ==
    IF up = "mock" THEN {MockPayload} ELSE {OverlapPayload(x) : x \in OverlapValues}
Datacentres(nd) == [Dcs |-> << [Nodes |-> << nd >>] >>]

IdleFrame ==
    [pc |-> "idle", L |-> NoLocals, c |-> "-", n |-> "-", got |-> << >>,
     out |-> << >>, overlapped |-> FALSE]
InFlight(f) == f.pc \notin {"idle", "done"}

OverlapInit ==
    /\ variant \in {"A", "B"}
    /\ CollectNotStarted
    /\ mapper = MapperIdle
    /\ client = ClientIdle
    /\ server = ServerIdle
    /\ \E up \in {"varying", "mock"} :
         overlap = [pc |-> "run", upstream |-> up, next |-> 1, heap |-> << >>,
                    exporter |-> NewExporter, pkg |-> PackageVars(variant),
                    frames |-> [k \in Scrapes |-> IdleFrame]]

Frame(k) == overlap.frames[k]
Cell(a) == overlap.heap[a]

\* func (e *Exporter) Collect(ch): the declarations of the locals.
OEnter(k) ==
    /\ overlap.pc = "run" /\ Frame(k).pc = "idle"
    /\ LET L == NewLocals(variant, overlap.next)
       IN  overlap' =
             [overlap EXCEPT
                !.next = @ + NumLocals(variant),
                !.heap = InitCells(@, L),
                !.frames[k] =
                    [@ EXCEPT !.pc = "list", !.L = L,
                              !.overlapped =
                                 \E j \in Scrapes \ {k} : InFlight(Frame(j))]]
    /\ UNCHANGED << collectVars, mapper, client, server >>

\* json.Unmarshal(e.provisioningClient.GetClusters(), &clusters) and the range
\* over clusters; cassandra.go starts the cluster's goroutine (wg.Add(1)).
OFetchClusters(k) ==
    /\ overlap.pc = "run" /\ Frame(k).pc = "list"
    /\ \E cl \in ClusterAnswers(overlap.upstream) :
         LET L == Frame(k).L
             decoded == << cl >>
         IN  overlap' =
               [overlap EXCEPT
                  !.heap = [@ EXCEPT ![L.clusters] = decoded,
                                     ![L.wg] = IF variant = "A" THEN @ + 1 ELSE @],
                  !.frames[k] =
                      [@ EXCEPT !.pc = "status", !.c = decoded[1],
                                !.got = Append(@, cl)]]
    /\ UNCHANGED << collectVars, mapper, client, server >>

\* The cluster's observations, then
\* json.Unmarshal(e.provisioningClient.GetClusterStatus(c.ID), &dcs)
OStatus(k) ==
    /\ overlap.pc = "run" /\ Frame(k).pc = "status"
    /\ \E nd \in NodeAnswers(overlap.upstream) :
         LET L == Frame(k).L
             c == Frame(k).c
             emitted == IF variant = "A" THEN clusterHealthCollector(variant, c)
                        ELSE clusterInfoCollector(c) \o clusterHealthCollector(variant, c)
         IN  overlap' =
               [overlap EXCEPT
                  !.heap = [@ EXCEPT ![L.dcs] = Datacentres(nd)],
                  !.frames[k] =
                      [@ EXCEPT !.pc = "node", !.out = @ \o emitted,
                                !.got = Append(@, nd)]]
    /\ UNCHANGED << collectVars, mapper, client, server >>

\* for _, dc := range dcs.Dcs { for _, n := range dc.Nodes {: the node's
\* observations; part_001 starts the node's goroutine here (wg.Add(1)).
\* Without a node the range ends and, in cassandra.go, so does the goroutine.
ONode(k) ==
    /\ overlap.pc = "run" /\ Frame(k).pc = "node"
    /\ LET L == Frame(k).L
           c == Frame(k).c
           nodes == FlattenDcs(Cell(L.dcs).Dcs)
       IN  IF nodes = << >>
           THEN overlap' =
                  [overlap EXCEPT
                     !.heap = [@ EXCEPT ![L.wg] = IF variant = "A" THEN @ - 1 ELSE @],
                     !.frames[k] = [@ EXCEPT !.pc = "wait"]]
           ELSE LET n == nodes[1]
                    emitted ==
                        IF variant = "A" THEN nodeHealthCollector(variant, c, n)
                        ELSE nodeInfoCollector(c, n) \o nodeHealthCollector(variant, c, n)
                IN  overlap' =
                      [overlap EXCEPT
                         !.heap = [@ EXCEPT ![L.wg] = IF variant = "B" THEN @ + 1 ELSE @],
                         !.frames[k] =
                             [@ EXCEPT !.pc = IF variant = "B" THEN "lock" ELSE "metrics",
                                       !.n = n, !.out = @ \o emitted]]
    /\ UNCHANGED << collectVars, mapper, client, server >>

\* sem.Lock()
OLock(k) ==
    /\ overlap.pc = "run" /\ Frame(k).pc = "lock"
    /\ Cell(Frame(k).L.sem) = FALSE
    /\ overlap' = [overlap EXCEPT !.heap = [@ EXCEPT ![Frame(k).L.sem] = TRUE],
                                  !.frames[k] = [@ EXCEPT !.pc = "metrics"]]
    /\ UNCHANGED << collectVars, mapper, client, server >>

\* json.Unmarshal(e.monitoringClient.GetNodeMetric(n.ID, ...), &ms); sem.Unlock()
OMetrics(k) ==
    /\ overlap.pc = "run" /\ Frame(k).pc = "metrics"
    /\ \E pl \in PayloadAnswers(overlap.upstream) :
         LET L == Frame(k).L
             unlocked == [overlap.heap EXCEPT ![L.ms] = pl]
         IN  overlap' =
               [overlap EXCEPT
                  !.heap = IF variant = "B" THEN [unlocked EXCEPT ![L.sem] = FALSE]
                           ELSE unlocked,
                  !.frames[k] =
                      [@ EXCEPT !.pc = "collect", !.got = Append(@, pl)]]
    /\ UNCHANGED << collectVars, mapper, client, server >>

\* nodeMetricsCollector(c, n, ms, ch); the deferred wg.Done()
OCollect(k) ==
    /\ overlap.pc = "run" /\ Frame(k).pc = "collect"
    /\ LET L == Frame(k).L
           r == nodeMetricsCollector(variant, Frame(k).c, Frame(k).n, Cell(L.ms))
       IN  overlap' =
             [overlap EXCEPT
                !.heap = [@ EXCEPT ![L.wg] = @ - 1],
                !.frames[k] = [@ EXCEPT !.pc = "wait", !.out = @ \o r.out]]
    /\ UNCHANGED << collectVars, mapper, client, server >>

\* wg.Wait() and the return of Collect
OWait(k) ==
    /\ overlap.pc = "run" /\ Frame(k).pc = "wait"
    /\ Cell(Frame(k).L.wg) = 0
    /\ overlap' = [overlap EXCEPT !.frames[k] = [@ EXCEPT !.pc = "done"]]
    /\ UNCHANGED << collectVars, mapper, client, server >>

OverlapNext ==
    \E k \in Scrapes :
        \/ OEnter(k)
        \/ OFetchClusters(k)
        \/ OStatus(k)
        \/ ONode(k)
        \/ OLock(k)
        \/ OMetrics(k)
        \/ OCollect(k)
        \/ OWait(k)

OverlapSpec == OverlapInit /\ [][OverlapNext]_vars

\* ===================================================== the upstream clients
\* URL text is kept as the sequence of its pieces: the delimiters ":", "//",
\* "/", "?", "#", the escape sign "%", a control character ("DEL") and, between
\* them, plain runs of characters.
SchemeRuns == {"http", "https", "HTTP"}
ToLower(run) == IF run = "HTTP" THEN "http" ELSE run
HexPairs == {"20", "2F"}

IndexOf(q, x) ==
    IF \E j \in DOMAIN q : q[j] = x
    THEN CHOOSE j \in DOMAIN q : q[j] = x /\ \A h \in 1..(j - 1) : q[h] # x
    ELSE 0
Before(q, x) == IF IndexOf(q, x) = 0 THEN q ELSE SubSeq(q, 1, IndexOf(q, x) - 1)
After(q, x) == IF IndexOf(q, x) = 0 THEN << >> ELSE SubSeq(q, IndexOf(q, x) + 1, Len(q))

\* unescape: "%" must be followed by two hexadecimal digits
BadEscape(q) ==
    \E j \in DOMAIN q : q[j] = "%" /\ (j = Len(q) \/ q[j + 1] \notin HexPairs)

NoURL == [scheme |-> "", opaque |-> << >>, host |-> "", path |-> << >>,
          forceQuery |-> FALSE, query |-> << >>, fragment |-> << >>]

\* url.Parse(rawURL): the fragment is cut off at the first "#"; a control
\* character, a leading ":" and a bad escape are errors; the scheme is
\* lower-cased; the query is cut off at the first "?"; after "//" comes the host.
ParseURL(raw) ==
    LET u == Before(raw, "#")
        frag == After(raw, "#")
        hasScheme == Len(u) >= 2 /\ u[1] \in SchemeRuns /\ u[2] = ":"
        afterScheme == IF hasScheme THEN SubSeq(u, 3, Len(u)) ELSE u
        rest == Before(afterScheme, "?")
        query == After(afterScheme, "?")
        rooted == rest # << >> /\ rest[1] \in {"/", "//"}
        authority == rest # << >> /\ rest[1] = "//"
        hasHost == authority /\ Len(rest) >= 2 /\ rest[2] # "/"
    IN  IF \E j \in DOMAIN u : u[j] = "DEL" THEN [err |-> TRUE, url |-> NoURL]
        ELSE IF u # << >> /\ u[1] = ":" THEN [err |-> TRUE, url |-> NoURL]
        ELSE IF BadEscape(rest) \/ BadEscape(frag) THEN [err |-> TRUE, url |-> NoURL]
        ELSE IF hasScheme /\ ~rooted
        THEN [err |-> FALSE,
              url |-> [NoURL EXCEPT !.scheme = ToLower(u[1]), !.opaque = rest,
                                    !.forceQuery = IndexOf(afterScheme, "?") # 0,
                                    !.query = query, !.fragment = frag]]
        ELSE [err |-> FALSE,
              url |-> [scheme |-> IF hasScheme THEN ToLower(u[1]) ELSE "",
                       opaque |-> << >>,
                       host |-> IF hasHost THEN rest[2] ELSE "",
                       path |-> IF hasHost THEN SubSeq(rest, 3, Len(rest))
                                ELSE IF authority THEN Tail(rest)
                                ELSE rest,
                       forceQuery |-> IndexOf(afterScheme, "?") # 0,
                       query |-> query,
                       fragment |-> frag]]

\* func (u *URL) String() string
URLString(u) ==
    (IF u.scheme # "" THEN << u.scheme, ":" >> ELSE << >>)
    \o (IF u.opaque # << >> THEN u.opaque
        ELSE (IF (u.scheme # "" \/ u.host # "") /\ (u.host # "" \/ u.path # << >>)
              THEN << "//" >> ELSE << >>)
             \o (IF u.host # "" THEN << u.host >> ELSE << >>)
             \o u.path)
    \o (IF u.forceQuery \/ u.query # << >> THEN << "?" >> \o u.query ELSE << >>)
    \o (IF u.fragment # << >> THEN << "#" >> \o u.fragment ELSE << >>)

\* const defaultURL = "https://api.instaclustr.com" and the endpoints
defaultURL == << "https", ":", "//", "api.instaclustr.com" >>
provisioningAPIEndpoint == "provisioning"
monitoringAPIEndpoint == "monitoring"
provisioningAPIVersion == "v1"
monitoringAPIVersion == "v1"

\* Config, and the base URLs it may hold: none, a plain one, one with an
\* upper-case scheme, one without scheme, one with a bad escape, a lone "#",
\* one with a fragment and one with a control character.
Urls ==
    {<< >>,
     << "http", ":", "//", "127.0.0.1:8082" >>,
     << "HTTP", ":", "//", "127.0.0.1:8082" >>,
     << ":", "//", "127.0.0.1:8082" >>,
     << "http", ":", "//", "127.0.0.1:8082", "/", "%", "zz" >>,
     << "#" >>,
     << "http", ":", "//", "127.0.0.1:8082", "#", "frag" >>,
     << "DEL" >>}
Configs ==
    {[Url |-> u, User |-> "user", ProvisioningAPIKey |-> "provisioning-key",
      MonitoringAPIKey |-> "monitoring-key"] : u \in Urls}

\* func createInstaClustrClient(instaclustrURL, user, apiKey, apiEndpoint, apiVersion)
createInstaClustrClientAsConfigured(instaclustrURL, user, apiKey, apiEndpoint, apiVersion) ==
    [url |-> instaclustrURL, user |-> user, APIKey |-> apiKey,
     APIEndpoint |-> apiEndpoint, APIVersion |-> apiVersion]
createInstaClustrClient(instaclustrURL, user, apiKey, apiEndpoint, apiVersion) ==
    LET parsed == ParseURL(instaclustrURL)
        stringURL == IF parsed.err THEN defaultURL
                     ELSE IF URLString(parsed.url) = << >> THEN defaultURL
                     ELSE URLString(parsed.url)
    IN  [url |-> stringURL, user |-> user, APIKey |-> apiKey,
         APIEndpoint |-> apiEndpoint, APIVersion |-> apiVersion]

NewProvisioningClient(config) ==
    createInstaClustrClient(config.Url, config.User, config.ProvisioningAPIKey,
                            provisioningAPIEndpoint, provisioningAPIVersion)
NewMonitoringClient(config) ==
    createInstaClustrClient(config.Url, config.User, config.MonitoringAPIKey,
                            monitoringAPIEndpoint, monitoringAPIVersion)

\* strings.Join(allNodeMetricsQuery, ",")
RECURSIVE Join(_, _)
Join(q, sep) ==
    IF q = << >> THEN ""
    ELSE IF Len(q) = 1 THEN q[1]
    ELSE q[1] \o sep \o Join(Tail(q), sep)

\* The URL texts the three operations format.
GetClustersURL(c) == c.url \o << "/", c.APIEndpoint, "/", c.APIVersion >>
GetClusterStatusURL(c, clusterID) ==
    c.url \o << "/", c.APIEndpoint, "/", c.APIVersion, "/" >> \o clusterID
GetNodeMetricURL(c, nodeID, metric) ==
    c.url \o << "/", c.APIEndpoint, "/", c.APIVersion, "/", "nodes", "/" >> \o nodeID
          \o << "?", "metrics=", metric >>

\* http.NewRequest("GET", url, nil), then req.SetBasicAuth(c.user, c.APIKey)
NewRequest(c, rawURL) ==
    LET parsed == ParseURL(rawURL)
    IN  [err |-> parsed.err,
         req |-> [url |-> parsed.url, user |-> c.user, password |-> c.APIKey]]

\* The ids the operations are called with: a known one, an unknown one and one
\* that cannot stand in a URL.
ClusterIDs == {<< "cluster-uuid-1" >>, << "unknown-cluster" >>, << "%", "zz" >>}
NodeIDs == {<< "node-uuid-1" >>, << "unknown-node" >>, << "%", "zz" >>}

\* --- the upstream, as src/mock/mock.go serves it
\* A JSON object is the sequence of its (key, value) pairs, an array the
\* sequence of its items.
notFoundResponse ==
    [array |-> FALSE,
     items |-> << << "status", 404 >>, << "message", "HTTP 404 Not Found" >>,
                  << "link", "https://www.w3.org/Protocols/rfc2616/rfc2616-sec10.html" >> >>]
listAllClusters ==
    [array |-> TRUE,
     items |-> << << << "cassandraVersion", "apache-cassandra-2.1.10" >>,
                     << "derivedStatus", "RUNNING" >>, << "id", "cluster-uuid-1" >>,
                     << "name", "MOCKED_CLUSTER_01" >>, << "nodeCount", 1 >>,
                     << "runningNodeCount", 1 >> >> >>]
getClusterStatus ==
    [array |-> FALSE,
     items |-> << << "id", "cluster-uuid-1" >>, << "dataCentres", << MockNode >> >> >>]
\* The time of the sample is what changes from one answer to the next.
getAllNodeMetrics(serial) ==
    [array |-> TRUE,
     items |-> << << << "id", "node-uuid-1" >>, << "payload", MockSamples >>,
                     << "time", serial >> >> >>]

\* json.NewEncoder(w).Encode(response) of a decoded interface{}: the keys of an
\* object come out sorted, and a newline ends the text.
JSONKeys == << "dataCentres", "id", "link", "message", "payload", "status", "time" >>
KeyRank(k) == CHOOSE j \in DOMAIN JSONKeys : JSONKeys[j] = k
RECURSIVE SortByKey(_)
SortByKey(pairs) ==
    IF pairs = << >> THEN << >>
    ELSE LET least == CHOOSE j \in DOMAIN pairs :
                         \A h \in DOMAIN pairs : KeyRank(pairs[j][1]) <= KeyRank(pairs[h][1])
         IN  << pairs[least] >>
             \o SortByKey(SubSeq(pairs, 1, least - 1) \o SubSeq(pairs, least + 1, Len(pairs)))
Encode(doc) ==
    [array |-> doc.array,
     items |-> IF doc.array THEN doc.items ELSE SortByKey(doc.items),
     newline |-> TRUE]
PlainNotFound == [array |-> FALSE, items |-> << << "text", "404 page not found" >> >>,
                  newline |-> TRUE]

\* The router of the mock server and its three handlers.
IsClustersPath(path) == path = << "/", provisioningAPIEndpoint, "/", provisioningAPIVersion >>
IsStatusPath(path) ==
    /\ Len(path) = 6
    /\ SubSeq(path, 1, 5) = << "/", provisioningAPIEndpoint, "/", provisioningAPIVersion, "/" >>
IsMetricsPath(path) ==
    /\ Len(path) = 8
    /\ SubSeq(path, 1, 7)
         = << "/", monitoringAPIEndpoint, "/", monitoringAPIVersion, "/", "nodes", "/" >>
Routed(req) ==
    /\ req.url.opaque = << >>
    /\ IsClustersPath(req.url.path) \/ IsStatusPath(req.url.path) \/ IsMetricsPath(req.url.path)
Serve(req, serial) ==
    LET path == req.url.path
    IN  IF req.url.opaque # << >> THEN [status |-> 404, body |-> PlainNotFound]
        ELSE IF IsClustersPath(path) THEN [status |-> 200, body |-> Encode(listAllClusters)]
        ELSE IF IsStatusPath(path)
        THEN IF path[6] = "cluster-uuid-1"
             THEN [status |-> 200, body |-> Encode(getClusterStatus)]
             ELSE [status |-> 404, body |-> Encode(notFoundResponse)]
        ELSE IF IsMetricsPath(path)
        THEN IF path[8] = "node-uuid-1"
             THEN [status |-> 200, body |-> Encode(getAllNodeMetrics(serial))]
             ELSE [status |-> 500, body |-> Encode(notFoundResponse)]
        ELSE [status |-> 404, body |-> PlainNotFound]

\* --- one client call after another
MaxCalls == 2
NoClient == [url |-> << >>, user |-> "", APIKey |-> "", APIEndpoint |-> "", APIVersion |-> ""]
NoRequest == [url |-> NoURL, user |-> "", password |-> ""]
NoBody == [array |-> FALSE, items |-> << >>, newline |-> FALSE]
NoResponse == [status |-> 0, body |-> NoBody, serial |-> 0]
NoBytes == [nil |-> TRUE]
Bytes(body) == [nil |-> FALSE, body |-> body]
NoCall == [op |-> "-", id |-> << >>]

ClientInit ==
    /\ variant \in {"A", "B"}
    /\ CollectNotStarted
    /\ mapper = MapperIdle
    /\ overlap = OverlapIdle
    /\ server = ServerIdle
    /\ \E cfg \in Configs :
         client = [pc |-> "new", cfg |-> cfg, prov |-> NoClient, mon |-> NoClient,
                   calls |-> 0, built |-> 0, wire |-> << >>, call |-> NoCall,
                   req |-> NoRequest, resp |-> NoResponse, fault |-> "none",
                   ret |-> NoBytes]

\* NewExporter: provisioningClient: instaclustr.NewProvisioningClient(cfg),
\* monitoringClient: instaclustr.NewMonitoringClient(cfg)
NewClients ==
    /\ client.pc = "new"
    /\ client' = [client EXCEPT !.pc = "ready",
                                !.prov = NewProvisioningClient(client.cfg),
                                !.mon = NewMonitoringClient(client.cfg)]
    /\ UNCHANGED << collectVars, mapper, overlap, server >>

\* The head of an operation: the request is built, or the operation logs and
\* returns nil.
Begin(op, id, c, rawURL) ==
    /\ client.pc \in {"ready", "returned"}
    /\ client.calls < MaxCalls
    /\ LET r == NewRequest(c, rawURL)
       IN  client' =
             IF r.err
             THEN [client EXCEPT !.pc = "returned", !.calls = @ + 1,
                                 !.call = [op |-> op, id |-> id], !.req = NoRequest,
                                 !.resp = NoResponse, !.fault = "build", !.ret = NoBytes]
             ELSE [client EXCEPT !.pc = "built", !.calls = @ + 1, !.built = @ + 1,
                                 !.call = [op |-> op, id |-> id], !.req = r.req,
                                 !.resp = NoResponse, !.fault = "none", !.ret = NoBytes]
    /\ UNCHANGED << collectVars, mapper, overlap, server >>

\* func (c ProvisioningClient) GetClusters() []byte
GetClusters == Begin("GetClusters", << >>, client.prov, GetClustersURL(client.prov))

\* func (c ProvisioningClient) GetClusterStatus(clusterID string) []byte
GetClusterStatus ==
    \E id \in ClusterIDs :
        Begin("GetClusterStatus", id, client.prov, GetClusterStatusURL(client.prov, id))

\* func (c MonitoringClient) GetNodeMetric(nodeID string, metric string) []byte
GetNodeMetric ==
    \E id \in NodeIDs :
        Begin("GetNodeMetric", id, client.mon,
              GetNodeMetricURL(client.mon, id, Join(allNodeMetricsQuery, ",")))

\* resp, err := c.client.Do(req): the requests put on the wire by one call.
AttemptsWithRetry(req, ok) == IF ok THEN << req >> ELSE << req, req >>
Attempts(req, ok) == << req >>

\* sendRequest, first half: the request goes out; a transport failure is logged
\* and returned, and the operation returns nil.
Do ==
    /\ client.pc = "built"
    /\ \E ok \in BOOLEAN :
         LET wire == client.wire \o Attempts(client.req, ok)
         IN  client' =
               IF ok
               THEN [client EXCEPT
                        !.pc = "responded", !.wire = wire,
                        !.resp = [status |-> Serve(client.req, Len(wire)).status,
                                  body |-> Serve(client.req, Len(wire)).body,
                                  serial |-> Len(wire)]]
               ELSE [client EXCEPT !.pc = "returned", !.wire = wire,
                                   !.fault = "transport", !.ret = NoBytes]
    /\ UNCHANGED << collectVars, mapper, overlap, server >>

\* data, err := ioutil.ReadAll(resp.Body); return data, err
sendRequestResultChecked(resp, readOk) ==
    IF readOk /\ resp.status \div 100 = 2 THEN [err |-> FALSE, data |-> Bytes(resp.body)]
    ELSE [err |-> TRUE, data |-> NoBytes]
sendRequestResult(resp, readOk) ==
    IF readOk THEN [err |-> FALSE, data |-> Bytes(resp.body)]
    ELSE [err |-> TRUE, data |-> NoBytes]

\* sendRequest, second half, and the tail of the operation:
\* if err != nil { log; return nil }; return data
ReadAll ==
    /\ client.pc = "responded"
    /\ \E readOk \in BOOLEAN :
         LET r == sendRequestResult(client.resp, readOk)
         IN  client' = [client EXCEPT !.pc = "returned",
                                      !.fault = IF readOk THEN "none" ELSE "read",
                                      !.ret = IF r.err THEN NoBytes ELSE r.data]
    /\ UNCHANGED << collectVars, mapper, overlap, server >>

ClientNext ==
    \/ NewClients
    \/ GetClusters
    \/ GetClusterStatus
    \/ GetNodeMetric
    \/ Do
    \/ ReadAll

ClientSpec == ClientInit /\ [][ClientNext]_vars

\* ============================================================ the http server
\* src/common/server.go (type Server) and the exporter's own copy of it in
\* src/instaclustr_exporter.go (type exporterHTTPServer): the handlers of
\* the liveness and shutdown URLs, the wait for shutdown and the liveness probe.

MaxRequests == 3

\* retries := 10
retries == 10

\* strings.Trim(s, "/")
RECURSIVE TrimLeft(_, _)
TrimLeft(q, x) == IF q # << >> /\ q[1] = x THEN TrimLeft(Tail(q), x) ELSE q
RECURSIVE TrimRight(_, _)
TrimRight(q, x) ==
    IF q # << >> /\ q[Len(q)] = x THEN TrimRight(SubSeq(q, 1, Len(q) - 1), x) ELSE q
Trim(q, x) == TrimRight(TrimLeft(q, x), x)

\* ServerOptions of the servers that are built: the test server of package
\* common, the same with a trailing slash on its liveness URL, one with an
\* unusable listen address, and the exporter's server on its default address.
ServerConfigs ==
    {[kind |-> "Server", Addr |-> "127.0.0.1:8080",
      LivenessProbeURL |-> << "/", "health" >>, ShutdownURL |-> << "/", "shutdown" >>],
     [kind |-> "Server", Addr |-> "127.0.0.1:8080",
      LivenessProbeURL |-> << "/", "health", "/" >>, ShutdownURL |-> << "/", "shutdown" >>],
     [kind |-> "Server", Addr |-> "DEL",
      LivenessProbeURL |-> << "/", "health" >>, ShutdownURL |-> << "/", "shutdown" >>],
     [kind |-> "exporterHTTPServer", Addr |-> ":9999",
      LivenessProbeURL |-> << "/", "health" >>, ShutdownURL |-> << "/", "shutdown" >>]}

\* func (s *Server) LivenessProbeHandler / func healthHandler:
\* w.Write([]byte("OK")), the status is the implicit 200
LivenessProbeHandler(kind) == [status |-> 200, body |-> "OK"]

\* w.Write([]byte("Shutting Down... bye! :)")) / w.Write([]byte("Shutting down server"))
ShutdownBody(kind) ==
    IF kind = "Server" THEN "Shutting Down... bye! :)" ELSE "Shutting down server"

\* atomic.CompareAndSwapUint32(&s.ShutdownReqCount, 0, 1)
CompareAndSwapUint32Always(val, old, new) == [swapped |-> TRUE, val |-> new]
CompareAndSwapUint32(val, old, new) ==
    IF val = old THEN [swapped |-> TRUE, val |-> new]
    ELSE [swapped |-> FALSE, val |-> val]

\* the router: the shutdown URL, then the liveness URL, matched as
\* registered; any other path is the router's 404
Router(cfg, path) ==
    IF path = cfg.ShutdownURL THEN "shutdown"
    ELSE IF path = cfg.LivenessProbeURL THEN "health"
    ELSE "notfound"
NotFound == [status |-> 404, body |-> "404 page not found\n"]

\* fmt.Sprintf("http://"+"%s/%s", s.HTTPServer.Addr, strings.Trim(s.LivenessProbeURL, "/"))
LivenessURL(cfg) == << "http", ":", "//", cfg.Addr, "/" >> \o Trim(cfg.LivenessProbeURL, "/")

\* if string(body) == "OK" && resp.StatusCode == http.StatusOK
IsLiveBodyOnly(resp) == resp.body = "OK"
IsLive(resp) == resp.body = "OK" /\ resp.status = 200

\* What another process bound to the listen address may answer to a probe.
ForeignAnswers == {[status |-> 200, body |-> "OK\n"], [status |-> 503, body |-> "OK"]}

\* a response as the probe has it, with the handler that wrote it
Answer(by, r) == [status |-> r.status, body |-> r.body, by |-> by]
NoAnswer == Answer("-", [status |-> 0, body |-> ""])
ProbeIdle == [pc |-> "idle", live |-> FALSE, retries |-> 0, resp |-> NoAnswer,
              gotOK |-> FALSE, ret |-> FALSE]
NewHandler == [pc |-> "write", body |-> "", swapped |-> FALSE]
\* a call of GracefulShutdown: its position, its req and resp (nil or not),
\* the handler that serves its request, what it has logged
GsIdle == [pc |-> "idle", req |-> "nil", resp |-> "nil", h |-> 0, logged |-> {}]

\* NewServer / createServer: ShutdownReq is an unbuffered channel,
\* ShutdownReqCount is 0
ServerInit ==
    /\ variant = "A"
    /\ CollectNotStarted
    /\ mapper = MapperIdle
    /\ overlap = OverlapIdle
    /\ client = ClientIdle
    /\ \E cfg \in ServerConfigs, port \in {"free", "foreign"} :
         server = [pc |-> "created", cfg |-> cfg, port |-> port, listen |-> "no",
                   ShutdownReqCount |-> 0, handlers |-> << >>, casLog |-> << >>,
                   senders |-> 0, spawned |-> 0, sent |-> 0, irqSig |-> FALSE,
                   signalled |-> FALSE,
                   shutdownCalls |-> 0, probe |-> ProbeIdle, gs |-> GsIdle]

Running == server.pc # "exited"
ServerStep(s) ==
    /\ server' = s
    /\ UNCHANGED << collectVars, mapper, overlap, client >>

\* Start / StartExporter: go ListenAndServe(), then WaitForShutDown, which
\* registers for SIGINT and SIGTERM and blocks in its select
Start ==
    /\ server.pc = "created"
    /\ ServerStep([server EXCEPT !.pc = "select", !.listen = "starting"])

\* s.HTTPServer.ListenAndServe() in its goroutine: it binds the address, or
\* fails and log.Fatalf ends the process, or finds the server already shut
\* down (http.ErrServerClosed)
ListenAndServe ==
    /\ Running /\ server.listen = "starting"
    /\ IF server.shutdownCalls > 0
       THEN ServerStep([server EXCEPT !.listen = "closed"])
       ELSE IF server.cfg.Addr = "DEL" \/ server.port = "foreign"
       THEN ServerStep([server EXCEPT !.pc = "exited"])
       ELSE ServerStep([server EXCEPT !.listen = "listening"])

\* a GET of the shutdown URL reaches the router and its handler starts
AcceptShutdown ==
    /\ Running /\ server.listen = "listening"
    /\ Len(server.handlers) < MaxRequests
    /\ Router(server.cfg, server.cfg.ShutdownURL) = "shutdown"
    /\ ServerStep([server EXCEPT !.handlers = Append(@, NewHandler)])

\* ShutDownHandler: w.Write(...)
HandlerWrite(h) ==
    /\ Running /\ server.handlers[h].pc = "write"
    /\ ServerStep([server EXCEPT !.handlers[h].body = ShutdownBody(server.cfg.kind),
                                 !.handlers[h].pc = "cas"])

\* ShutDownHandler: if !atomic.CompareAndSwapUint32(...) { return };
\* go func() { s.ShutdownReq <- true }(): the sender blocks on the channel
HandlerSwap(h) ==
    /\ Running /\ server.handlers[h].pc = "cas"
    /\ LET r == CompareAndSwapUint32(server.ShutdownReqCount, 0, 1)
       IN  ServerStep([server EXCEPT
               !.ShutdownReqCount = r.val,
               !.casLog = Append(@, h),
               !.handlers[h].pc = "done",
               !.handlers[h].swapped = r.swapped,
               !.spawned = IF r.swapped THEN @ + 1 ELSE @,
               !.senders = IF r.swapped THEN @ + 1 ELSE @])

\* SIGINT or SIGTERM is delivered to irqSig (buffer of one)
Signal ==
    /\ server.pc = "select" /\ ~server.irqSig
    /\ ServerStep([server EXCEPT !.irqSig = TRUE, !.signalled = TRUE])

\* WaitForShutDown: case sig := <-irqSig
SelectSignalOrDefault ==
    /\ server.pc = "select"
    /\ ServerStep([server EXCEPT !.pc = "stopping", !.irqSig = FALSE])
SelectSignal ==
    /\ server.pc = "select" /\ server.irqSig
    /\ ServerStep([server EXCEPT !.pc = "stopping", !.irqSig = FALSE])

\* WaitForShutDown: case sig := <-s.ShutdownReq, which lets one sender through
SelectShutdownReqKeepWaiting ==
    /\ server.pc = "select" /\ server.senders > 0
    /\ ServerStep([server EXCEPT !.senders = @ - 1, !.sent = @ + 1])
SelectShutdownReq ==
    /\ server.pc = "select" /\ server.senders > 0
    /\ ServerStep([server EXCEPT !.pc = "stopping", !.senders = @ - 1,
                                 !.sent = @ + 1])

\* WaitForShutDown: s.HTTPServer.Shutdown(ctx) closes the listener; handlers
\* that are running go on
Shutdown ==
    /\ server.pc = "stopping"
    /\ ServerStep([server EXCEPT
           !.pc = "stopped",
           !.shutdownCalls = @ + 1,
           !.listen = IF @ = "listening" THEN "closed" ELSE @])

ProbeStep(p) == ServerStep([server EXCEPT !.probe = p])
\* wait := func() { retries--; time.Sleep(waitIntervalSeconds) }
Wait(p) == [p EXCEPT !.retries = @ - 1, !.pc = "loop"]

\* WaitForLiveness / WaitForServerUp is called: live := false, retries := 10
ProbeCall ==
    /\ Running /\ server.probe.pc = "idle"
    /\ ProbeStep([ProbeIdle EXCEPT !.pc = "loop", !.retries = retries])

\* for !live && retries > 0 { req, err := http.NewRequest(...) ... };
\* return live
ProbeLoop ==
    /\ Running /\ server.probe.pc = "loop"
    /\ LET p == server.probe
       IN  IF ~p.live /\ p.retries > 0
           THEN IF ParseURL(LivenessURL(server.cfg)).err
                THEN ProbeStep(Wait(p))
                ELSE ProbeStep([p EXCEPT !.pc = "do"])
           ELSE ProbeStep([p EXCEPT !.pc = "returned", !.ret = p.live])

\* resp, err := new(http.Client).Do(req); body, err := ioutil.ReadAll(resp.Body):
\* the answer of this server's router, or of whoever else holds the address,
\* or no connection; the body may fail to be read
ProbeDo ==
    /\ Running /\ server.probe.pc = "do"
    /\ LET p == server.probe
           path == ParseURL(LivenessURL(server.cfg)).url.path
           answers ==
               IF server.listen = "listening"
               THEN {IF Router(server.cfg, path) = "health"
                     THEN Answer("health", LivenessProbeHandler(server.cfg.kind))
                     ELSE Answer("notfound", NotFound)}
               ELSE IF server.port = "foreign"
               THEN {Answer("foreign", a) : a \in ForeignAnswers}
               ELSE {}
       IN  \/ /\ answers = {}
              /\ ProbeStep(Wait(p))
           \/ \E a \in answers, readOk \in BOOLEAN :
                IF readOk
                THEN ProbeStep([p EXCEPT !.pc = "check", !.resp = a,
                                         !.gotOK = @ \/ (a.status = 200 /\ a.body = "OK")])
                ELSE ProbeStep(Wait(p))

\* if string(body) == "OK" && resp.StatusCode == http.StatusOK { live = true;
\* break }; otherwise the loop goes round without waiting
ProbeCheck ==
    /\ Running /\ server.probe.pc = "check"
    /\ LET p == server.probe
       IN  IF IsLive(p.resp)
           THEN ProbeStep([p EXCEPT !.live = TRUE, !.pc = "returned", !.ret = TRUE])
           ELSE ProbeStep([p EXCEPT !.pc = "loop"])

ServerNext ==
    \/ Start
    \/ ListenAndServe
    \/ AcceptShutdown
    \/ \E h \in 1..MaxRequests : h \in DOMAIN server.handlers /\ HandlerWrite(h)
    \/ \E h \in 1..MaxRequests : h \in DOMAIN server.handlers /\ HandlerSwap(h)
    \/ Signal
    \/ SelectSignal
    \/ SelectShutdownReq
    \/ Shutdown
    \/ ProbeCall
    \/ ProbeLoop
    \/ ProbeDo
    \/ ProbeCheck

ServerSpec == ServerInit /\ [][ServerNext]_vars

\* Each goroutine of the process is scheduled fairly: the listener, the
\* handlers, the goroutine in Start and WaitForShutDown, and the probe loop.
\* Requests, signals and the call of the probe are the environment's and
\* need not happen.
HandlerSteps ==
    \E h \in DOMAIN server.handlers : HandlerWrite(h) \/ HandlerSwap(h)
FairServerSpec ==
    /\ ServerSpec
    /\ WF_vars(ListenAndServe)
    /\ WF_vars(HandlerSteps)
    /\ WF_vars(Start \/ SelectSignal \/ SelectShutdownReq \/ Shutdown)
    /\ WF_vars(ProbeLoop \/ ProbeDo \/ ProbeCheck)

\* The test server of package common with nothing probing it: its listener,
\* its shutdown handlers, signals and the wait for shutdown, scheduled fairly.
ShutdownInit ==
    /\ ServerInit
    /\ server.cfg.kind = "Server"
    /\ server.cfg.Addr = "127.0.0.1:8080"
    /\ server.cfg.LivenessProbeURL = << "/", "health" >>
ShutdownNext ==
    \/ Start
    \/ ListenAndServe
    \/ AcceptShutdown
    \/ HandlerSteps
    \/ Signal
    \/ SelectSignal
    \/ SelectShutdownReq
    \/ Shutdown
FairShutdownSpec ==
    /\ ShutdownInit /\ [][ShutdownNext]_vars
    /\ WF_vars(ListenAndServe)
    /\ WF_vars(HandlerSteps)
    /\ WF_vars(Start \/ SelectSignal \/ SelectShutdownReq \/ Shutdown)

\* fmt.Sprintf("http://"+"%s/%s", s.HTTPServer.Addr, strings.Trim(s.ShutdownURL, "/"))
ShutdownRequestURL(cfg) == << "http", ":", "//", cfg.Addr, "/" >> \o Trim(cfg.ShutdownURL, "/")

GsStep(g) == ServerStep([server EXCEPT !.gs = g])

\* GracefulShutdown: req, err := http.NewRequest(...); if err != nil
\* { log.Errorf(...) } and on it goes, with req nil
GracefulShutdown ==
    /\ Running /\ server.gs.pc = "idle"
    /\ IF ParseURL(ShutdownRequestURL(server.cfg)).err
       THEN GsStep([server.gs EXCEPT !.pc = "do",
                                     !.logged = @ \cup {"Could not send shutdown request"}])
       ELSE GsStep([server.gs EXCEPT !.pc = "do", !.req = "built"])

\* resp, err := client.Do(req); if err != nil { log.Errorf(...) };
\* defer resp.Body.Close(): Do panics on a nil req; on a transport error
\* resp is nil and resp.Body panics; otherwise the router starts the
\* shutdown handler, or whoever else holds the address answers
GracefulDo ==
    /\ Running /\ server.gs.pc = "do"
    /\ LET g == server.gs
       IN  IF g.req = "nil"
           THEN ServerStep([server EXCEPT !.pc = "exited", !.gs.pc = "panicked"])
           ELSE IF server.listen = "listening"
           THEN /\ Len(server.handlers) < MaxRequests
                /\ ServerStep([server EXCEPT
                       !.handlers = Append(@, NewHandler),
                       !.gs.pc = "await", !.gs.h = Len(server.handlers) + 1])
           ELSE IF server.port = "foreign"
           THEN GsStep([g EXCEPT !.pc = "read", !.resp = "response"])
           ELSE ServerStep([server EXCEPT
                    !.pc = "exited", !.gs.pc = "panicked",
                    !.gs.logged = @ \cup {"Error sending request"}])

\* the handler of the request has returned and its response arrives
GracefulResponse ==
    /\ Running /\ server.gs.pc = "await"
    /\ server.handlers[server.gs.h].pc = "done"
    /\ GsStep([server.gs EXCEPT !.pc = "read", !.resp = "response"])

\* body, err := ioutil.ReadAll(resp.Body); if err != nil { log.Warnf(...) };
\* log.Infof("Server status: %s", string(body)); return
GracefulRead ==
    /\ Running /\ server.gs.pc = "read"
    /\ \E readOk \in BOOLEAN :
         GsStep([server.gs EXCEPT
             !.pc = "returned",
             !.logged = IF readOk THEN @ \cup {"Server status"}
                        ELSE @ \cup {"Could not read shutdown response", "Server status"}])

\* tearDown of the tests: GracefulShutdown is called on a server that may be
\* starting, running, stopping or stopped.
TearDownNext ==
    \/ ShutdownNext
    \/ GracefulShutdown
    \/ GracefulDo
    \/ GracefulResponse
    \/ GracefulRead
TearDownSpec == ServerInit /\ [][TearDownNext]_vars

\* ==================================================================== claims
Returned == pc = "done"
SeqRange(q) == {q[j] : j \in DOMAIN q}
Emitted(o) == BagIn(o, sink)
AllEmitted(q) == \A o \in SeqRange(q) : Emitted(o)
AllEmittedOnce(q) == \A o \in SeqRange(q) : CopiesIn(o, sink) = 1

\* What the scrape owes for a cluster and for one of its nodes when the
\* upstream answers for them are the healthy ones.
ClusterObs(c) ==
    (IF variant = "B" THEN clusterInfoCollector(ClusterRec(c)) ELSE << >>)
    \o clusterHealthCollector(variant, ClusterRec(c))
NodeHealthObs(c, k) ==
    (IF variant = "B" THEN nodeInfoCollector(ClusterRec(c), NodeRec(k)) ELSE << >>)
    \o nodeHealthCollector(variant, ClusterRec(c), NodeRec(k))
NodeMetricObs(c, k) ==
    nodeMetricsCollector(variant, ClusterRec(c), NodeRec(k), PayloadOk(k)).out

Healthy(c) == statusResp[c] = "ok" /\ \A k \in NodesOfCluster(c) : metricsResp[k] = "ok"

\* C1: when the scrape has returned and getClusterStatus failed for some
\* cluster, every other cluster whose status and node-metrics answers are
\* healthy has the node metrics of all its nodes in the sink.
ClusterFailureIsolation ==
    (Returned /\ listResp = "ok" /\ \E f \in ClusterIx : statusResp[f] = "fail")
    => \A c \in ClusterIx :
          Healthy(c) => \A k \in NodesOfCluster(c) : AllEmitted(NodeMetricObs(c, k))

\* C2: when the scrape has returned and getNodeMetrics failed for one node of
\* a cluster, every other node of that cluster whose own metrics answer is
\* healthy has its node-health and its detailed observations in the sink.
NodeFailureIsolation ==
    (Returned /\ listResp = "ok")
    => \A c \in ClusterIx : \A k, f \in NodesOfCluster(c) :
          (  /\ statusResp[c] = "ok"
             /\ k # f /\ metricsResp[f] = "fail" /\ metricsResp[k] = "ok")
          => AllEmitted(NodeHealthObs(c, k) \o NodeMetricObs(c, k))

\* C3: with every upstream call returning and the sink receiving, every
\* scrape that is not cut short by a runtime panic eventually returns.
ScrapeTerminates == <>(Returned \/ crashed)

\* C4: a scrape never panics, whatever decoded responses it works on.
NoCrash == ~crashed

\* C5: Collect returns only after every goroutine it spawned has finished,
\* and nothing is sent to the sink once Collect has returned.
AllWorkersFinished == \A w \in DOMAIN workers : workers[w].pc = "done"
JoinBarrier ==
    /\ [](Returned => AllWorkersFinished /\ wg = 0)
    /\ [][Returned => sink' = sink]_vars

JoinBarrierWitness ==
    /\ Returned /\ Len(workers) >= 2 /\ sink # EmptyBag
    /\ \E n \in NodeIx : metricCalls[n] > 0 /\ metricsResp[n] = "fail"

\* C6: when the cluster list is missing or does not decode, the scrape has
\* returned right after the fetch with an empty sink, no status or metrics
\* call and no goroutine.
FatalTopLevelFailure ==
    (listResp # "ok" /\ pc # "list")
    => /\ Returned
       /\ sink = EmptyBag
       /\ \A c \in ClusterIx : statusCalls[c] = 0
       /\ \A n \in NodeIx : metricCalls[n] = 0
       /\ workers = << >>
       /\ wg = 0

FatalTopLevelFailureWitness ==
    listResp = "type" /\ Returned /\ clusters # << >> /\ sink = EmptyBag

\* C7: when the scrape has returned, every cluster of the decoded list has
\* each of its cluster-level observations in the sink exactly once.
ClusterObsUnconditional ==
    (Returned /\ listResp = "ok")
    => \A c \in ClusterIx : AllEmittedOnce(ClusterObs(c))

\* C8: when the scrape has returned, every node listed in a decoded
\* cluster-status response has its node-health observation (and node-info in
\* variant B) in the sink exactly once.
NodeHealthUnconditional ==
    (Returned /\ listResp = "ok")
    => \A c \in ClusterIx :
          (statusResp[c] = "ok" /\ statusCalls[c] > 0)
          => \A k \in NodesOfCluster(c) : AllEmittedOnce(NodeHealthObs(c, k))

\* C9: an observation carrying a cluster's and a node's identity labels is in
\* the sink only if that node is listed in the datacentres document the
\* upstream answered for that cluster.
NodesBelongToCluster ==
    \A o \in BagToSet(sink) :
        ({"clusterId", "nodeId"} \subseteq DOMAIN o.labels)
        => \E c \in ClusterIx :
              /\ ClusterRec(c).ID = o.labels.clusterId
              /\ statusResp[c] = "ok"
              /\ \E k \in NodesOfCluster(c) : NodeRec(k).ID = o.labels.nodeId

\* C10: in cassandra.go, any two observations about the same node id carry
\* the same identity label tuple.
NoLabelDrift ==
    variant = "A"
    => \A o1, o2 \in BagToSet(sink) :
          (  /\ "nodeId" \in DOMAIN o1.labels
             /\ "nodeId" \in DOMAIN o2.labels
             /\ o1.labels.nodeId = o2.labels.nodeId)
          => o1.labels = o2.labels

\* ------------------------------------------------------------ concurrency
\* The detailed-metric observations nodeMetricsCollector derives from the
\* answer the upstream gives to node k's own getNodeMetrics call, as
\* (descriptor, value) pairs; none when that answer does not decode.
DetailDescs ==
    {Descs[variant][f] :
        f \in {"nodeCPUUtilizationPercentage", "nodeDiskUtilizationPercentage",
               "nodeCassandraReadsPerSecond", "nodeCassandraWritesPerSecond",
               "nodeCassandraCompactions", "nodeCassandraRepairsPending",
               "nodeCassandraRepairsActive", "nodeClientRequestReadLatency",
               "nodeClientRequestWriteLatency", "nodeClientRequestReadPercentile",
               "nodeClientRequestWritePercentile"}}
OwnResponseObs(k) ==
    LET own == DecodeMetrics(metricsResp[k], k, << >>).ms
        out == nodeMetricsCollector(variant, ClusterRec(ClusterOf(k)), NodeRec(k), own).out
    IN  {<<out[j].desc, out[j].value>> : j \in DOMAIN out}

\* C11: every detailed metric observation in the sink that carries node N's
\* id has the descriptor and value of an observation derived from the
\* response to N's own getNodeMetrics call.
NoCrossNodeMixing ==
    \A o \in BagToSet(sink) :
        (o.desc \in DetailDescs /\ "nodeId" \in DOMAIN o.labels)
        => \E k \in NodeIx :
              /\ NodeRec(k).ID = o.labels.nodeId
              /\ <<o.desc, o.value>> \in OwnResponseObs(k)

\* The buffer access a goroutine is about to make, from its position.
\* dcs: written by json.Unmarshal(..., &dcs), read by `range dcs.Dcs`; only
\* cassandra.go's goroutines touch it (part_001 decodes and ranges in Collect).
\* ms: written by json.Unmarshal(..., &ms), read by nodeMetricsCollector.
WritesDcs(w) == variant = "A" /\ workers[w].pc = "status"
ReadsDcs(w) == variant = "A" /\ workers[w].pc = "range"
WritesMs(w) == workers[w].pc = "metrics"
ReadsMs(w) == workers[w].pc = "collect"

\* Two goroutines are at unordered accesses of one buffer, one of them a
\* write.  A worker at "metrics" in part_001 holds sem, which the reader at
\* "collect" has already released: nothing orders the two accesses.
RacingOnDcs(w1, w2) == WritesDcs(w1) /\ (WritesDcs(w2) \/ ReadsDcs(w2))
RacingOnMs(w1, w2) == WritesMs(w1) /\ (WritesMs(w2) \/ ReadsMs(w2))

\* C12: no two workers are ever at concurrent accesses of the same dcs or ms
\* buffer with at least one of them writing.
RaceFreeBuffers ==
    \A w1, w2 \in DOMAIN workers :
        w1 # w2 => ~RacingOnDcs(w1, w2) /\ ~RacingOnMs(w1, w2)

AllHealthy ==
    /\ listResp = "ok"
    /\ \A c \in ClusterIx : statusResp[c] = "ok"
    /\ \A k \in NodeIx : metricsResp[k] = "ok"
SequentialObs ==
    UNION {SeqRange(ClusterObs(c)) : c \in ClusterIx}
    \cup UNION {SeqRange(NodeHealthObs(ClusterOf(k), k) \o NodeMetricObs(ClusterOf(k), k)) :
                k \in NodeIx}

\* C15: for fixed upstream responses (here: all healthy) a returned scrape has
\* emitted the same set of observations under every interleaving, namely the
\* set the sequential schedule emits.
ScrapeDeterminism == (Returned /\ AllHealthy) => BagToSet(sink) = SequentialObs

\* ------------------------------------------------------- mapping functions
One == Flt(1)
Zero == Flt(0)
Called(fn) == mapper.fn = fn /\ mapper.pc # "call"
ObsNamed(out, name) == {j \in DOMAIN out : out[j].desc = name}

\* C16: a call of clusterHealthCollector produces exactly one
\* cassandra_cluster_running observation, with value 1 when derivedStatus is
\* "RUNNING" and 0 for every other string, the empty one included.
ClusterHealthMapping ==
    Called("clusterHealthCollector")
    => /\ mapper.pc = "returned"
       /\ Cardinality(ObsNamed(mapper.out, "cassandra_cluster_running")) = 1
       /\ \A j \in ObsNamed(mapper.out, "cassandra_cluster_running") :
             mapper.out[j].value = IF mapper.c.DerivedStatus = "RUNNING" THEN One ELSE Zero

ClusterHealthMappingWitness ==
    /\ Called("clusterHealthCollector") /\ mapper.c.DerivedStatus = ""
    /\ \E j \in DOMAIN mapper.out : mapper.out[j].value = Zero

\* C17: a call of nodeHealthCollector produces exactly one
\* cassandra_node_running observation, with value 1 when nodeStatus is
\* "RUNNING" and 0 for every other string, the empty one included.
NodeHealthMapping ==
    Called("nodeHealthCollector")
    => /\ mapper.pc = "returned"
       /\ Cardinality(ObsNamed(mapper.out, "cassandra_node_running")) = 1
       /\ \A j \in ObsNamed(mapper.out, "cassandra_node_running") :
             mapper.out[j].value = IF mapper.n.Status = "RUNNING" THEN One ELSE Zero

NodeHealthMappingWitness ==
    /\ Called("nodeHealthCollector") /\ mapper.n.Status = "running"
    /\ mapper.out # << >> /\ mapper.out[1].value = Zero

\* ----------------------------------------------------------- mapping table
\* The table of (name, type) pairs and the output metric it assigns to each.
AnyTypeNames ==
    {"cpuUtilization", "diskUtilization", "cassandraReads", "cassandraWrites",
     "compactions"}
InTable(m) ==
    \/ m.Name \in AnyTypeNames
    \/ m.Name = "repairs" /\ m.Type \in {"pendingtasks", "activetasks"}
    \/ /\ m.Name \in {"clientRequestRead", "clientRequestWrite"}
       /\ m.Type \in {"latency_per_operation", "95thPercentile"}
TableMetric(m) ==
    CASE m.Name = "cpuUtilization" -> "node_cpu_utilization_percentage"
      [] m.Name = "diskUtilization" -> "node_disk_utilization_percentage"
      [] m.Name = "cassandraReads" -> "node_reads_per_second"
      [] m.Name = "cassandraWrites" -> "node_writes_per_second"
      [] m.Name = "compactions" -> "node_compactions"
      [] m.Name = "repairs" /\ m.Type = "pendingtasks" -> "node_repairs_pending"
      [] m.Name = "repairs" /\ m.Type = "activetasks" -> "node_repairs_active"
      [] m.Name = "clientRequestRead" /\ m.Type = "latency_per_operation" ->
            "node_client_request_read_latency"
      [] m.Name = "clientRequestRead" /\ m.Type = "95thPercentile" ->
            "node_client_request_read_percentile"
      [] m.Name = "clientRequestWrite" /\ m.Type = "latency_per_operation" ->
            "node_client_request_write_latency"
      [] m.Name = "clientRequestWrite" /\ m.Type = "95thPercentile" ->
            "node_client_request_write_percentile"
IsLatencyRow(m) == m.Name \in {"clientRequestRead", "clientRequestWrite"}

\* What the samples before and after the sample under test produce on their own.
OutOf(samples) ==
    nodeMetricsCollector(variant, mapper.c, mapper.n, << [Metrics |-> samples] >>).out
OwnLabels(o) ==
    /\ "nodeId" \in DOMAIN o.labels
    /\ \A k \in DOMAIN o.labels : o.labels[k] = NodeLabels(mapper.c, mapper.n)[k]

\* C18: for a sample whose (name, type) pair is in the mapping table,
\* nodeMetricsCollector returns having emitted exactly one observation for it,
\* on the output metric of its table row, with the labels of the owning node
\* and, on the identity rows, the parsed first value.
MappingTable ==
    (Called("nodeMetricsCollector") /\ InTable(mapper.m))
    => /\ mapper.pc = "returned"
       /\ Len(mapper.out) = Len(OutOf(mapper.pre)) + 1 + Len(OutOf(mapper.post))
       /\ LET o == mapper.out[Len(OutOf(mapper.pre)) + 1]
          IN  /\ o.desc = "cassandra_" \o TableMetric(mapper.m)
              /\ OwnLabels(o)
              /\ (~IsLatencyRow(mapper.m) /\ ~ParseFloat(mapper.m.Values[1]).err)
                 => o.value = ParseFloat(mapper.m.Values[1]).f

\* The first value string of the sample under test is not a number.
Unparseable(m) == Len(m.Values) > 0 /\ ParseFloat(m.Values[1]).err

\* C19: for a table sample whose first value string is not a valid number
\* ("N/A", the empty string), nodeMetricsCollector returns, emits exactly one
\* observation for the sample, with value 0, between the unchanged
\* observations of the samples before it and of the samples after it.
ValueParseRecovery ==
    (Called("nodeMetricsCollector") /\ InTable(mapper.m) /\ Unparseable(mapper.m))
    => /\ mapper.pc = "returned"
       /\ Len(mapper.out) = Len(OutOf(mapper.pre)) + 1 + Len(OutOf(mapper.post))
       /\ SubSeq(mapper.out, 1, Len(OutOf(mapper.pre))) = OutOf(mapper.pre)
       /\ mapper.out[Len(OutOf(mapper.pre)) + 1].value = Zero
       /\ OwnLabels(mapper.out[Len(OutOf(mapper.pre)) + 1])
       /\ SubSeq(mapper.out, Len(OutOf(mapper.pre)) + 2, Len(mapper.out))
            = OutOf(mapper.post)

ValueParseRecoveryWitness ==
    /\ Called("nodeMetricsCollector")
    /\ mapper.m.Name = "repairs" /\ mapper.m.Type = "pendingtasks"
    /\ mapper.m.Values = << << "N", "/", "A" >> >>
    /\ OutOf(mapper.pre) # << >> /\ OutOf(mapper.post) # << >>
    /\ Len(mapper.out) = 3 /\ mapper.out[2].value = Zero
    /\ \E j \in DOMAIN mapper.log : mapper.log[j][1] = "parse error"

\* C20: for a sample whose (name, type) pair is not in the mapping table,
\* nodeMetricsCollector returns and its output is exactly what the samples
\* before it and the samples after it produce with the unknown sample absent.
UnknownSkipped ==
    (Called("nodeMetricsCollector") /\ ~InTable(mapper.m))
    => /\ mapper.pc = "returned"
       /\ mapper.out = OutOf(mapper.pre \o mapper.post)

\* ------------------------------------------------------ overlapping scrapes
\* What one invocation owes its channel, from the answers to its own calls.
OwnObservations(got) ==
    LET c == got[1]
        n == got[2]
    IN  IF variant = "A"
        THEN clusterHealthCollector("A", c) \o nodeHealthCollector("A", c, n)
             \o nodeMetricsCollector("A", c, n, got[3]).out
        ELSE clusterInfoCollector(c) \o clusterHealthCollector("B", c)
             \o nodeInfoCollector(c, n) \o nodeHealthCollector("B", c, n)
             \o nodeMetricsCollector("B", c, n, got[3]).out
Entered(k) == overlap.frames[k].pc # "idle"

\* C14: two Collect invocations on one Exporter hold pairwise different
\* cluster list, datacentre buffer, metrics buffer, WaitGroup and mutex; what
\* an invocation has emitted once its workers are through is exactly what the
\* answers to its own calls yield; the Exporter's fields and the package-level
\* variables keep their values.
IndependentScrapes ==
    overlap.pc = "run"
    => /\ \A j, k \in Scrapes :
             (j # k /\ Entered(j) /\ Entered(k))
             => Cells(overlap.frames[j].L) \cap Cells(overlap.frames[k].L) = {}
       /\ \A k \in Scrapes :
             overlap.frames[k].pc \in {"wait", "done"}
             => /\ Len(overlap.frames[k].got) = 3
                /\ overlap.frames[k].out = OwnObservations(overlap.frames[k].got)
       /\ overlap.exporter = NewExporter
       /\ overlap.pkg = PackageVars(variant)

IndependentScrapesWitness ==
    /\ overlap.pc = "run"
    /\ \E j, k \in Scrapes :
         /\ j # k
         /\ overlap.frames[j].pc = "done" /\ overlap.frames[k].pc = "done"
         /\ overlap.frames[k].overlapped
         /\ overlap.frames[j].got[2] # overlap.frames[k].got[2]
         /\ overlap.frames[j].got[3] # overlap.frames[k].got[3]
         /\ overlap.frames[j].out # overlap.frames[k].out

\* ---------------------------------------------------------- dropped samples
IsWarning(e) == e[1] = "unknown type"
Warnings(log) == SelectSeq(log, IsWarning)
LogOf(samples) ==
    nodeMetricsCollector(variant, mapper.c, mapper.n, << [Metrics |-> samples] >>).log

\* C21: when nodeMetricsCollector returns from a payload holding a sample whose
\* (name, type) pair is not in the mapping table, its log holds one warning for
\* that sample on top of the warnings of the other samples, whether the name is
\* known with an unknown type or the name itself is unknown.
DroppedSampleWarned ==
    (Called("nodeMetricsCollector") /\ ~InTable(mapper.m) /\ mapper.pc = "returned")
    => /\ Len(Warnings(mapper.log))
            = Len(Warnings(LogOf(mapper.pre))) + 1 + Len(Warnings(LogOf(mapper.post)))
       /\ \E j \in DOMAIN mapper.log :
             /\ IsWarning(mapper.log[j])
             /\ mapper.log[j][2] = mapper.m.Name

\* ------------------------------------------------------------ later values
\* The sample under test with every value after the first removed.
FirstValueOnly(m) == [m EXCEPT !.Values = SubSeq(@, 1, 1)]

\* C22: for a sample with one or more values nodeMetricsCollector returns, and
\* its observations are those of the same payload with the values after the
\* first removed from the sample: later values change neither the number of
\* observations nor their values.
OnlyFirstValueCounts ==
    (Called("nodeMetricsCollector") /\ Len(mapper.m.Values) >= 1)
    => /\ mapper.pc = "returned"
       /\ mapper.out
            = OutOf(mapper.pre \o << FirstValueOnly(mapper.m) >> \o mapper.post)

OnlyFirstValueCountsWitness ==
    /\ Called("nodeMetricsCollector") /\ mapper.pc = "returned"
    /\ mapper.m.Name = "cpuUtilization"
    /\ mapper.m.Values = << << "3" >>, << "N", "/", "A" >> >>
    /\ mapper.pre = << >>
    /\ mapper.out # << >> /\ mapper.out[1].value = Flt(3)

\* ------------------------------------------------------- end-to-end scrape
\* The exposition the scrape of the tests' upstream is expected to give: one
\* line per metric, with its label set and its value as a decimal.
Decimal(ds, e) == [neg |-> FALSE, digits |-> ds, e |-> e]
ExpectedClusterLabels == [clusterId |-> "cluster-uuid-1", clusterName |-> "MOCKED_CLUSTER_01"]
ExpectedNodeLabels ==
    [clusterId |-> "cluster-uuid-1", clusterName |-> "MOCKED_CLUSTER_01",
     nodeId |-> "node-uuid-1", nodePrivateIp |-> "e.f.g.h", nodePublicIp |-> "a.b.c.d",
     rack |-> "MOCKED_RACK_01"]
Line(name, labels, value) ==
    [desc |-> name, valueType |-> "gauge", value |-> value, labels |-> labels]
ExpectedExposition ==
    {
     Line("cassandra_cluster_nodes_count",
          ExpectedClusterLabels, Decimal(<< 1 >>, 0)),
     Line("cassandra_cluster_nodes_running_count",
          ExpectedClusterLabels, Decimal(<< 1 >>, 0)),
     Line("cassandra_cluster_running",
          ExpectedClusterLabels, Decimal(<< 1 >>, 0)),
     Line("cassandra_node_client_request_read_latency",
          ExpectedNodeLabels, Decimal(<< 1, 4, 6, 2, 5, 6, 6, 6, 6, 6, 6, 6, 6, 6, 6, 6, 4 >>, -13)),
     Line("cassandra_node_client_request_read_percentile",
          ExpectedNodeLabels, Decimal(<< 1, 8, 6, 6, 1, 6, 4, 5, 9, 9, 9, 9, 9, 9, 9, 9, 8 >>, -13)),
     Line("cassandra_node_client_request_write_latency",
          ExpectedNodeLabels, Decimal(<< 1, 2, 9, 3, 5, 3, 3, 3, 3, 3, 3, 3, 3, 3, 3, 3, 5 >>, -13)),
     Line("cassandra_node_client_request_write_percentile",
          ExpectedNodeLabels, Decimal(<< 1, 6, 6, 9, 6, 2, 5, 3 >>, -4)),
     Line("cassandra_node_compactions",
          ExpectedNodeLabels, Decimal(<< >>, 0)),
     Line("cassandra_node_cpu_utilization_percentage",
          ExpectedNodeLabels, Decimal(<< 2, 5, 8, 8, 4, 3, 8, 3 >>, -7)),
     Line("cassandra_node_disk_utilization_percentage",
          ExpectedNodeLabels, Decimal(<< 7, 6, 1, 9, 7, 3, 5, 7 >>, -7)),
     Line("cassandra_node_reads_per_second",
          ExpectedNodeLabels, Decimal(<< 1, 2, 5 >>, -2)),
     Line("cassandra_node_repairs_active",
          ExpectedNodeLabels, Decimal(<< >>, 0)),
     Line("cassandra_node_repairs_pending",
          ExpectedNodeLabels, Decimal(<< >>, 0)),
     Line("cassandra_node_running",
          ExpectedNodeLabels, Decimal(<< 1 >>, 0)),
     Line("cassandra_node_writes_per_second",
          ExpectedNodeLabels, Decimal(<< 1, 2, 5 >>, -2))
    }
ScrapedMock(k) ==
    /\ overlap.pc = "run" /\ overlap.upstream = "mock" /\ variant = "A"
    /\ overlap.frames[k].pc \in {"wait", "done"}

\* C23: a scrape by src/collector/cassandra.go of the upstream with one RUNNING
\* cluster of one RUNNING node and one sample per table entry emits exactly 15
\* observations: the 3 cluster ones labelled (clusterId, clusterName),
\* node_running = 1 and one per sample, each node observation with the six
\* identity labels and the parsed first value unmodified.
EndToEndHealthyScrape ==
    \A k \in Scrapes :
        ScrapedMock(k)
        => /\ Len(overlap.frames[k].out) = 15
           /\ SeqRange(overlap.frames[k].out) = ExpectedExposition

EndToEndHealthyScrapeWitness ==
    \E k \in Scrapes :
        /\ ScrapedMock(k) /\ overlap.frames[k].pc = "done"
        /\ Line("cassandra_node_cpu_utilization_percentage", ExpectedNodeLabels,
                Decimal(<< 2, 5, 8, 8, 4, 3, 8, 3 >>, -7))
             \in SeqRange(overlap.frames[k].out)
        /\ Line("cassandra_node_client_request_read_latency", ExpectedNodeLabels,
                Decimal(<< 1, 4, 6, 2, 5, 6, 6, 6, 6, 6, 6, 6, 6, 6, 6, 6, 4 >>, -13))
             \in SeqRange(overlap.frames[k].out)

\* --------------------------------------------------------- upstream clients
ClientReturned == client.pc = "returned"
NonSuccessStatus == client.resp # NoResponse /\ client.resp.status \div 100 # 2

\* C24: an operation of the client hands no response bytes to its caller when
\* the request suffered a transport failure, when the response status is not
\* 2xx, or when reading the body failed.
ClientErrorOnNon2xx ==
    (ClientReturned /\ (client.fault \in {"transport", "read"} \/ NonSuccessStatus))
    => client.ret = NoBytes

\* The JSON error body as the tests expect it: link, message, status.
ExpectedErrorBody ==
    [array |-> FALSE,
     items |-> << << "link", "https://www.w3.org/Protocols/rfc2616/rfc2616-sec10.html" >>,
                  << "message", "HTTP 404 Not Found" >>, << "status", 404 >> >>,
     newline |-> TRUE]
KnownID(call) == call.id \in {<< "cluster-uuid-1" >>, << "node-uuid-1" >>}
Answered ==
    /\ ClientReturned /\ client.fault = "none" /\ Routed(client.req)
    /\ client.call.op \in {"GetClusterStatus", "GetNodeMetric"}

\* C25: when the upstream has answered a GetClusterStatus or GetNodeMetric call
\* and the body was read, the call returns the JSON error body (link, message
\* "HTTP 404 Not Found", status 404) for an unknown id, and the body the
\* upstream sent, unchanged, for a known id.
ErrorBodyPassedThrough ==
    Answered
    => IF KnownID(client.call)
       THEN /\ client.resp.status = 200
            /\ client.ret = Bytes(client.resp.body)
       ELSE client.ret = Bytes(ExpectedErrorBody)

ErrorBodyPassedThroughWitness ==
    /\ Answered /\ client.call = [op |-> "GetNodeMetric", id |-> << "unknown-node" >>]
    /\ client.resp.status = 500
    /\ client.ret = Bytes(ExpectedErrorBody)

\* C26 (client half, as the code has it): an invocation whose request could
\* be built has put exactly one request on the wire and, when it returns
\* bytes, they are the body of the response to that very request; an
\* invocation whose URL does not parse has put none and returns nil.
OneRequestPerBuiltCall ==
    /\ client.pc \in {"ready", "returned"} => Len(client.wire) = client.built
    /\ (ClientReturned /\ client.fault = "build") => client.ret = NoBytes
    /\ (ClientReturned /\ client.ret # NoBytes) =>
           /\ client.resp.serial = Len(client.wire)
           /\ client.ret = Bytes(client.resp.body)

\* C26: no retry, no caching: within one scrape a GetClusterStatus or
\* GetNodeMetric call that failed is issued once and not again (and every
\* invocation is exactly one request on the wire).
FailedCallNotReattempted ==
    /\ \A c \in ClusterIx : statusResp[c] = "fail" => statusCalls[c] <= 1
    /\ \A n \in NodeIx : metricsResp[n] = "fail" => metricCalls[n] <= 1

\* the clients have been created from the configuration
ClientsCreated == client.pc # "new" /\ client.pc # "idle"
FallsBack(raw) == raw = << >> \/ ParseURL(raw).err
ParsedForm(raw) == URLString(ParseURL(raw).url)

\* C27 as stated: the client's url is the default when the configured base
\* URL is empty or fails to parse, and the parsed URL's string form otherwise.
BaseURLFallbackAsStated ==
    ClientsCreated =>
        \A c \in {client.prov, client.mon} :
            c.url = IF FallsBack(client.cfg.Url) THEN defaultURL
                    ELSE ParsedForm(client.cfg.Url)

\* C27: base URL fallback: the url of the provisioning and of the monitoring
\* client is the default when the configured base URL is empty, fails to
\* parse or parses to a URL whose string form is empty (a lone "#"), and the
\* parsed URL's string form otherwise; it is never empty, and the two clients
\* differ in nothing but key, endpoint and version.
BaseURLFallback ==
    ClientsCreated =>
        /\ \A c \in {client.prov, client.mon} :
              /\ c.url = IF FallsBack(client.cfg.Url) \/ ParsedForm(client.cfg.Url) = << >>
                         THEN defaultURL
                         ELSE ParsedForm(client.cfg.Url)
              /\ c.url # << >>
              /\ c.user = client.cfg.User
        /\ client.prov.url = client.mon.url
        /\ client.prov.APIKey = client.cfg.ProvisioningAPIKey
        /\ client.mon.APIKey = client.cfg.MonitoringAPIKey
BaseURLFallbackWitness ==
    /\ ClientsCreated
    /\ client.cfg.Url = << ":", "//", "127.0.0.1:8082" >>
    /\ client.prov.url = defaultURL /\ client.mon.url = defaultURL
    /\ client.calls > 0

\* C28: idempotent shutdown: of the shutdown requests one Server handles,
\* exactly the one that reaches the compare-and-swap first flips
\* ShutdownReqCount from 0 to 1 and spawns a sender; at most one value is
\* sent on ShutdownReq, HTTPServer.Shutdown is invoked at most once, and a
\* later request does nothing but write its response body.
IdempotentShutdown ==
    server.pc # "idle" =>
        /\ server.ShutdownReqCount = (IF server.casLog = << >> THEN 0 ELSE 1)
        /\ \A h \in DOMAIN server.handlers :
              /\ server.handlers[h].swapped <=> (server.casLog # << >> /\ server.casLog[1] = h)
              /\ server.handlers[h].pc # "write" =>
                     server.handlers[h].body = ShutdownBody(server.cfg.kind)
        /\ server.spawned = (IF server.casLog = << >> THEN 0 ELSE 1)
        /\ server.senders + server.sent = server.spawned
        /\ server.sent <= 1
        /\ server.shutdownCalls <= 1
IdempotentShutdownWitness ==
    /\ server.pc = "stopped"
    /\ Len(server.handlers) >= 2
    /\ \A h \in DOMAIN server.handlers : server.handlers[h].pc = "done"
    /\ server.casLog[1] = 2
    /\ server.sent = 1 /\ server.shutdownCalls = 1

\* C29: liveness probing: the health handler answers a probe with status 200
\* and body "OK"; WaitForLiveness returns true whenever one of its probes has
\* received status 200 with body exactly "OK", and returns true only then.
LivenessProbing ==
    server.pc # "idle" =>
        LET p == server.probe
        IN  /\ p.resp.by = "health" => (p.resp.status = 200 /\ p.resp.body = "OK")
            /\ p.gotOK => (p.pc \in {"check", "returned"} /\ (p.pc = "returned" => p.ret))
            /\ (p.pc = "returned" /\ p.ret) => p.gotOK
LivenessProbingWitness ==
    /\ server.probe.pc = "returned" /\ server.probe.ret
    /\ server.probe.resp.by = "health"
    /\ server.probe.retries < retries
    /\ server.listen = "listening"

\* C30: lock scope in part_001: while a worker that has fetched and decoded
\* its node's metrics under the lock has not yet emitted the observations
\* mapped from them, no other worker holds the lock for its own fetch and
\* decode into the shared ms.
LockCoversMapAndWrite ==
    variant = "B" =>
        \A w \in DOMAIN workers :
            workers[w].pc = "collect" =>
                \A v \in DOMAIN workers \ {w} : workers[v].pc # "metrics"

\* C31: lock release in part_001: a worker that acquired the scrape's mutex
\* releases it before it ends, so the mutex is held only while some worker
\* is inside its fetch and decode, and no worker waits at Lock for a holder
\* that has terminated.
LockReleasedBeforeWorkerEnds ==
    (variant = "B" /\ sem) => \E w \in DOMAIN workers : workers[w].pc = "metrics"

\* C32: unique series per scrape: no two observations emitted in one scrape
\* have the same metric name and the same label values (cluster ids are
\* unique and node ids are unique within their cluster in every upstream
\* answer of the model).
UniqueSeriesPerScrape ==
    \A o \in BagToSet(sink) :
        /\ CopiesIn(o, sink) = 1
        /\ \A q \in BagToSet(sink) : (q.desc = o.desc /\ q.labels = o.labels) => q = o

\* C33: bounded liveness wait: a call of WaitForLiveness always returns (as
\* long as the process lives), whatever way its probes fail.
LivenessWaitTerminates ==
    (server.pc # "idle" /\ server.probe.pc = "loop")
        ~> (server.probe.pc = "returned" \/ server.pc = "exited")

\* a shutdown request has flipped ShutdownReqCount while WaitForShutDown waits
AcceptedWhileWaiting ==
    server.pc = "select" /\ server.spawned = 1 /\ server.ShutdownReqCount = 1
StartReturned == server.pc = "stopped" /\ server.shutdownCalls = 1

StartBlocksUntilShutdown ==
    (server.pc \in {"stopping", "stopped"} \/ (server.pc # "idle" /\ server.shutdownCalls > 0))
        => (server.signalled \/ server.ShutdownReqCount = 1)
StartBlocksUntilShutdownWitness ==
    /\ server.pc = "stopped" /\ server.shutdownCalls = 1
    /\ server.signalled /\ server.ShutdownReqCount = 0
    /\ server.listen = "closed"

\* C36: no stranded shutdown sender: a goroutine spawned by the shutdown
\* handler to send on ShutdownReq eventually completes its send.
NoStrandedSender ==
    (server.pc # "idle" /\ server.senders > 0) ~> (server.senders = 0 /\ server.sent = 1)

\* building or sending the shutdown request has failed
GsFailed ==
    server.pc # "idle" /\
    server.gs.logged \cap {"Could not send shutdown request", "Error sending request"} # {}

\* C37: GracefulShutdown tolerates an unreachable server: when building or
\* sending the shutdown request fails it logs the error and goes on to
\* return, and it neither dereferences a missing response nor panics.
GracefulShutdownTolerant ==
    /\ GsFailed => server.gs.pc # "panicked"
    /\ (server.pc # "idle" /\ server.gs.pc = "panicked") => GsFailed
====
